---- MODULE Spec2Model ----
(***************************************************************************)
(* A model of pysubtools' SubRip parser: the line cursor of Parser         *)
(* (parsers/base.py), the diagnostics sink Parser._add_msg, and the        *)
(* SubRipStateMachine driven by SubRipParser._parse (parsers/subrip.py).   *)
(*                                                                         *)
(* Text is modelled character by character: a Python str is a sequence of  *)
(* one-character strings, and every regular expression, strip, split,      *)
(* index and replace of the source is an operator computing on those       *)
(* sequences.  Times are Python floats in the source (seconds); here they   *)
(* are whole milliseconds, the exact value of the decimal the float is     *)
(* read from.                                                              *)
(***************************************************************************)
EXTENDS Integers, Sequences, FiniteSets, TLC

(***************************************************************************)
(* Bounds of the model.                                                    *)
(***************************************************************************)
\* units per document drawn from every unit shape (anomalies included)
MaxUnits == 2
\* units per document of regular units
MaxRegUnits == 4
\* units per document with a sequence number left out
MaxGapUnits == 4
\* bytes of a buffer after its byte-order mark
MaxBody == 2
\* lines that match no format before the last line of a buffer
MaxJunk == 10
\* calls on one stream
MaxCalls == 2
\* units of a Subtitle that is exported
MaxExportUnits == 2
\* calls of export on one exporter
MaxExports == 2
\* lines of a document the line cursor is moved over
MaxLines == 3
\* blank lines between two text lines of a unit
MaxBlanks == 2

(***************************************************************************)
(* Characters and str methods.                                             *)
(***************************************************************************)
Space == {" ", "\t", "\n", "\r"}
Digit == {"0", "1", "2", "3", "4", "5", "6", "7", "8", "9"}
DigitSeq == <<"0", "1", "2", "3", "4", "5", "6", "7", "8", "9">>
\* the class [0-9:,.] of the header pattern
TimeChar == Digit \cup {":", ",", "."}

Min(a, b) == IF a <= b THEN a ELSE b

\* F(v): the value v under the name F gives it, as a Python local variable
\* holds the value of the expression assigned to it
With(v, F(_)) == F(v)

\* str.rstrip()
RECURSIVE rstrip(_)
rstrip(s) ==
  IF s = <<>> \/ s[Len(s)] \notin Space THEN s
  ELSE rstrip(SubSeq(s, 1, Len(s) - 1))

\* str.lstrip()
RECURSIVE lstrip(_)
lstrip(s) ==
  IF s = <<>> \/ s[1] \notin Space THEN s
  ELSE lstrip(SubSeq(s, 2, Len(s)))

\* str.strip()
strip(s) == lstrip(rstrip(s))

\* The end of the longest run of characters of class C that starts at
\* position i of s: the first j >= i with s[j] outside C (Len(s)+1 if none).
\* It is what a greedy C* consumes.
RECURSIVE Span(_, _, _)
Span(s, i, C) ==
  IF i > Len(s) \/ s[i] \notin C THEN i ELSE Span(s, i + 1, C)

\* s[i:] starts with t
StartsWithAt(s, i, t) ==
  /\ i + Len(t) - 1 <= Len(s)
  /\ \A k \in 1..Len(t) : s[i + k - 1] = t[k]

\* str.find(t) as a 1-based position, 0 when t does not occur in s
RECURSIVE FindFrom(_, _, _)
FindFrom(s, t, i) ==
  IF i + Len(t) - 1 > Len(s) THEN 0
  ELSE IF StartsWithAt(s, i, t) THEN i
  ELSE FindFrom(s, t, i + 1)

Find(s, t) == FindFrom(s, t, 1)

\* t in s
Contains(s, t) == Find(s, t) # 0

\* str.index(t): the 0-based offset of the first occurrence (t occurs in s
\* wherever the source calls it)
index(s, t) == Find(s, t) - 1

\* str.replace(old, new): every occurrence is replaced
RECURSIVE replace_all(_, _, _)
replace_all(s, old, new) ==
  With(Find(s, old), LAMBDA p :
    IF p = 0 THEN s
    ELSE SubSeq(s, 1, p - 1) \o new
           \o replace_all(SubSeq(s, p + Len(old), Len(s)), old, new))

\* str.replace(old, new, 1): only the first occurrence is replaced
replace1(s, old, new) ==
  With(Find(s, old), LAMBDA p :
    IF p = 0 THEN s
    ELSE SubSeq(s, 1, p - 1) \o new \o SubSeq(s, p + Len(old), Len(s)))

\* str.split(sep)
RECURSIVE split(_, _)
split(s, sep) ==
  With(Find(s, sep), LAMBDA p :
    IF p = 0 THEN <<s>>
    ELSE <<SubSeq(s, 1, p - 1)>> \o split(SubSeq(s, p + Len(sep), Len(s)), sep))

DigitVal(c) == (CHOOSE i \in 1..10 : DigitSeq[i] = c) - 1

\* int(s) of a non-empty string of decimal digits
RECURSIVE int(_)
int(s) ==
  IF s = <<>> THEN 0
  ELSE 10 * int(SubSeq(s, 1, Len(s) - 1)) + DigitVal(s[Len(s)])

\* str(n) of an integer n >= 0
RECURSIVE str(_)
str(n) ==
  IF n < 10 THEN <<DigitSeq[n + 1]>>
  ELSE str(n \div 10) \o <<DigitSeq[(n % 10) + 1]>>

RECURSIVE Pow10(_)
Pow10(k) == IF k = 0 THEN 1 ELSE 10 * Pow10(k - 1)

(***************************************************************************)
(* The regular expressions of SubRipStateMachine.                          *)
(***************************************************************************)
Arrow == <<"-", "-", ">">>

\* _sequence = ^\s*\d+\s*$
_sequence(s) ==
  With(strip(s), LAMBDA t : t # <<>> /\ \A i \in 1..Len(t) : t[i] \in Digit)

\* _header = ^\s*([0-9:,.]+\s*-->\s*[0-9:,.]+)\s*(.*)$
\* The classes that follow one another are disjoint, so the greedy match is
\* the only one.  The result holds whether the line matches and groups 1, 2.
_header(s) ==
  With(Span(s, 1, Space), LAMBDA a :
  With(Span(s, a, TimeChar), LAMBDA b :
  With(Span(s, b, Space), LAMBDA c :
  With(Span(s, c + 3, Space), LAMBDA d :
  With(Span(s, d, TimeChar), LAMBDA e :
  With(Span(s, e, Space), LAMBDA f :
    IF b > a /\ StartsWithAt(s, c, Arrow) /\ e > d
    THEN [ok |-> TRUE, g1 |-> SubSeq(s, a, e - 1), g2 |-> SubSeq(s, f, Len(s))]
    ELSE [ok |-> FALSE, g1 |-> <<>>, g2 |-> <<>>]))))))

\* one \d{1,2} followed by the separator sep, from position i: the position
\* after the separator, 0 when it does not match
DigitsThen(s, i, sep) ==
  With(Span(s, i, Digit), LAMBDA j :
    IF j - i \in {1, 2} /\ j <= Len(s) /\ s[j] = sep THEN j + 1 ELSE 0)

\* _time = (?:\d{1,2}:){2}\d{1,2},\d{1,3} used with match(): anchored at the
\* start, whatever follows the match is ignored.  The result is group(0), or
\* <<>> for None.
_time(s) ==
  With(DigitsThen(s, 1, ":"), LAMBDA p1 :
  With(IF p1 = 0 THEN 0 ELSE DigitsThen(s, p1, ":"), LAMBDA p2 :
  With(IF p2 = 0 THEN 0 ELSE DigitsThen(s, p2, ","), LAMBDA p3 :
  With(IF p3 = 0 THEN 0 ELSE Min(Span(s, p3, Digit), p3 + 3), LAMBDA p4 :
    IF p3 # 0 /\ p4 > p3 THEN SubSeq(s, 1, p4 - 1) ELSE <<>>))))

\* convert = lambda x: int(x[0]) * 3600 + int(x[1]) * 60 + float(x[2].replace(',', '.'))
\* applied to group(0).split(':'); in milliseconds
convert(g0) ==
  With(split(g0, <<":">>), LAMBDA x :
  With(split(x[3], <<",">>), LAMBDA sec :
    (int(x[1]) * 3600 + int(x[2]) * 60 + int(sec[1])) * 1000
      + int(sec[2]) * Pow10(3 - Len(sec[2]))))

\* _tagged_header = ^\{([^}]*)\}  The result holds whether the line matches,
\* the length of group(0) and group(1).
_tagged_header(s) ==
  With(Find(s, <<"}">>), LAMBDA close :
    IF s # <<>> /\ s[1] = "{" /\ close # 0
    THEN [ok |-> TRUE, len |-> close, g1 |-> SubSeq(s, 2, close - 1)]
    ELSE [ok |-> FALSE, len |-> 0, g1 |-> <<>>])

\* _tag_position = \s*\\pos\(\s*(\d+)\s*,\s*(\d+)\s*\)\s*  matched at position i
TagPositionAt(s, i) ==
  With(Span(s, i, Space), LAMBDA a :
  With(Span(s, a + 5, Space), LAMBDA b :
  With(Span(s, b, Digit), LAMBDA c :
  With(Span(s, c, Space), LAMBDA d :
  With(Span(s, d + 1, Space), LAMBDA e :
  With(Span(s, e, Digit), LAMBDA f :
  With(Span(s, f, Space), LAMBDA g :
    IF /\ StartsWithAt(s, a, <<"\\", "p", "o", "s", "(">>)
       /\ c > b /\ StartsWithAt(s, d, <<",">>)
       /\ f > e /\ StartsWithAt(s, g, <<")">>)
    THEN [ok |-> TRUE, g0 |-> SubSeq(s, i, Span(s, g + 1, Space) - 1),
          x |-> int(SubSeq(s, b, c - 1)), y |-> int(SubSeq(s, e, f - 1))]
    ELSE [ok |-> FALSE, g0 |-> <<>>, x |-> 0, y |-> 0])))))))

\* _tag_position.search(s): the leftmost match, tried from position i on
RECURSIVE TagPositionFrom(_, _)
TagPositionFrom(s, i) ==
  IF i > Len(s) THEN [ok |-> FALSE, g0 |-> <<>>, x |-> 0, y |-> 0]
  ELSE With(TagPositionAt(s, i), LAMBDA p :
         IF p.ok THEN p ELSE TagPositionFrom(s, i + 1))

_tag_position(s) == TagPositionFrom(s, 1)

(***************************************************************************)
(* The input documents.  A document is a sequence of units; each unit is   *)
(* written as an optional sequence line, its header lines, its text lines  *)
(* and sep blank lines.  Every line read by readline() ends with "\n".     *)
(***************************************************************************)
\* "00:00:15,000 --> 00:00:30,000"
HSpec == <<"0","0",":","0","0",":","1","5",",","0","0","0"," ","-","-",">"," ",
           "0","0",":","0","0",":","3","0",",","0","0","0">>
\* "0:0:1,0-->0:0:2,5"
HShort == <<"0",":","0",":","1",",","0","-","-",">","0",":","0",":","2",",","5">>
\* "00:00:01,000 --> 00:00:02,000"
HComma == <<"0","0",":","0","0",":","0","1",",","0","0","0"," ","-","-",">"," ",
            "0","0",":","0","0",":","0","2",",","0","0","0">>
\* "00:00:01.000 --> 00:00:02.000"
HDot == <<"0","0",":","0","0",":","0","1",".","0","0","0"," ","-","-",">"," ",
          "0","0",":","0","0",":","0","2",".","0","0","0">>
\* "0:0:1,0-->0:0:2,5 x"
HGarbage == HShort \o <<" ", "x">>
\* "0:0:1,0-->0:0:2,5 1"
HRepeat == HShort \o <<" ", "1">>
\* "0:0:1,0-->0:0:2,5-->0:0:3,0"
HTwice == HShort \o <<"-","-",">","0",":","0",":","3",",","0">>
\* "0:1,0-->0:2,5": the shape of a header, no valid timecode
HBad == <<"0",":","1",",","0","-","-",">","0",":","2",",","5">>
Hello == <<"H","e","l","l","o">>
TextA == <<"a">>
TextB == <<"b">>
Blank == <<>>
\* "{\pos(1,2)}a": a text line that starts with a tagged header
TPos == <<"{","\\","p","o","s","(","1",",","2",")","}","a">>
\* "{\pos(1,2)x}a": the tag holds more than the position
TJunk == <<"{","\\","p","o","s","(","1",",","2",")","x","}","a">>

\* the units that are written as the format asks, up to the blank line
RegShapes ==
  { [seq |-> TRUE, hdr |-> <<HSpec>>, text |-> <<Hello>>, sep |-> s] : s \in {0, 1} }
  \cup
  { [seq |-> TRUE, hdr |-> <<HShort>>, text |-> <<TextA, TextB>>, sep |-> s] : s \in {0, 1} }

\* the regular units that are followed by one blank line
SepShapes == {u \in RegShapes : u.sep = 1}

\* units with one anomaly each
OddShapes ==
  { [seq |-> FALSE, hdr |-> <<h>>, text |-> <<TextA>>, sep |-> 1] :
      h \in {HShort, HDot, HBad} }
  \cup
  { [seq |-> TRUE, hdr |-> h, text |-> <<TextA>>, sep |-> 1] :
      h \in {<<HDot>>, <<HComma>>, <<HGarbage>>, <<HRepeat>>, <<HBad>>,
             <<HShort, HShort>>, <<Blank, HShort>>, <<>>} }
  \cup
  { [seq |-> TRUE, hdr |-> <<HShort>>, text |-> <<TextA>>, sep |-> 2] }
  \cup
  { [seq |-> TRUE, hdr |-> <<HShort>>, text |-> <<t>>, sep |-> 1] :
      t \in {TPos, TJunk} }
  \cup
  { [seq |-> FALSE, hdr |-> <<HShort>>, text |-> <<TJunk>>, sep |-> 0] }

Shapes == RegShapes \cup OddShapes

\* units that end a document: a header without a sequence number and
\* nothing after it, and a header with two arrows and no sequence number
EndShapes ==
  { [seq |-> FALSE, hdr |-> <<HShort>>, text |-> <<>>, sep |-> 0],
    [seq |-> FALSE, hdr |-> <<HTwice>>, text |-> <<TextA>>, sep |-> 1] }

\* the number written on the sequence line of the i-th unit: one value is
\* left out before unit gap (gap = 0: none)
Number(i, gap) == IF gap # 0 /\ i >= gap THEN i + 1 ELSE i

Blanks(k) == [i \in 1..k |-> Blank]

\* units whose text has blank lines between two text lines
GapShapes ==
  { [seq |-> TRUE, hdr |-> <<HShort>>,
     text |-> <<TextA>> \o Blanks(k) \o <<TextB>>, sep |-> 1] : k \in 1..MaxBlanks }

UnitLines(u, number) ==
  (IF u.seq THEN <<str(number)>> ELSE <<>>) \o u.hdr \o u.text \o Blanks(u.sep)

RECURSIVE DocLines(_, _, _)
DocLines(us, gap, n) ==
  IF n = 0 THEN <<>>
  ELSE DocLines(us, gap, n - 1) \o UnitLines(us[n], Number(n, gap))

\* what readline() returns for each line
RawLines(us, gap) ==
  With(DocLines(us, gap, Len(us)), LAMBDA ls :
    [i \in 1..Len(ls) |-> ls[i] \o <<"\n">>])

(***************************************************************************)
(* State.  The attributes of the Parser, of its SubRipStateMachine and of  *)
(* the Subtitle that Parser.parse fills, and the document they read.       *)
(***************************************************************************)
VARIABLES
  units,              \* the units the document was written from
  gap,                \* the unit before which a sequence number is left out
  data,               \* Parser._data: what readline() returns, line by line
  pos,                \* how many lines of data have been read
  stop_level,         \* Parser._stop_level
  warnings,           \* Parser.warnings
  errors,             \* Parser.errors
  _read_lines,        \* Parser._read_lines
  _current_line_num,  \* Parser._current_line_num
  _current_line,      \* Parser._current_line
  aasm_state,         \* the current state of the machine
  temp,               \* SubRipStateMachine.temp
  _parsed,            \* SubRipStateMachine._parsed
  paused,             \* SubRipStateMachine.paused
  _missing_line,      \* SubRipStateMachine._missing_line
  sub,                \* the units appended to the Subtitle, in order
  exception,          \* the exception that left Parser.parse, "none" if none
  raised,             \* the diagnostic that exception carries
  status              \* running, finished (parse returned), raised or crashed

vars == <<units, gap, data, pos, stop_level, warnings, errors, _read_lines,
          _current_line_num, _current_line, aasm_state, temp, _parsed, paused,
          _missing_line, sub, exception, raised, status>>

\* A stream that encodings.detect and the sniffers are called on.
VARIABLES
  buffer,             \* the bytes of the stream
  position,           \* its read position
  closed,             \* whether it is closed
  encoding_hint,      \* the encoding hint (None or a name)
  language_hint,      \* the language hint (None or a code)
  chardet,            \* what chardet.detect gives for the bytes
  calls               \* how the calls made on the stream have ended, in order

stream_vars ==
  <<buffer, position, closed, encoding_hint, language_hint, chardet, calls>>

\* Python's None and a value that is not None
None == <<>>
Some(v) == <<v>>

\* no stream is given
NoStream ==
  /\ buffer = <<>>
  /\ position = 0
  /\ closed = FALSE
  /\ encoding_hint = None
  /\ language_hint = None
  /\ chardet = None
  /\ calls = <<>>

(***************************************************************************)
(* Export (exporters/base.py, exporters/subrip.py).  A Subtitle is the     *)
(* sequence of its units, as iterating over it gives them; a time is       *)
(* written in milliseconds, a line of text is a sequence of characters,    *)
(* and what is written is a sequence of bytes.                             *)
(***************************************************************************)
VARIABLES
  subtitle,           \* the Subtitle that is exported
  _encoding,          \* SubRipExporter._encoding
  _line_ending,       \* SubRipExporter._line_ending
  _unit,              \* SubRipExporter._unit
  output,             \* the bytes written to the output of the current call
  written,            \* how many units the current call has written
  phase,              \* new, units (after _export_metadata) or done
  exports             \* how many times export was called on the exporter

export_vars ==
  <<subtitle, _encoding, _line_ending, _unit, output, written, phase, exports>>

\* no exporter is made
NoExport ==
  /\ subtitle = <<>>
  /\ _encoding = "utf-8"
  /\ _line_ending = <<"\n">>
  /\ _unit = 0
  /\ output = <<>>
  /\ written = 0
  /\ phase = "new"
  /\ exports = 0

\* A parser whose line cursor is moved by hand.
VARIABLES
  answer,             \* how the last call of a cursor method has ended
  visited             \* how many lines of the document were ever read

cursor_vars == <<answer, visited>>

\* no cursor method is called
NoCursor == answer = None /\ visited = 0

\* A parser that is given documents to parse, call by call.
VARIABLES
  parses              \* for each call of Parser.parse on new data, the numbers
                      \* of warnings and of errors recorded before it

session_vars == <<parses>>

\* Parser.parse is called once, on the document
NoSession == parses = <<>>

\* A MicroDVDParser and the two passes of its parse.
VARIABLES
  _skip_lines,        \* MicroDVDParser._skip_lines
  stage,              \* the pass that runs: metadata (_parse_metadata) or units (_parse)
  examined,           \* the line numbers the unit pass has matched, in order
  passed              \* the line numbers the unit pass has skipped, in order

microdvd_vars == <<_skip_lines, stage, examined, passed>>

\* no MicroDVDParser is made
NoMicroDVD ==
  /\ _skip_lines = {}
  /\ stage = "metadata"
  /\ examined = <<>>
  /\ passed = <<>>

\* The mutable state as one value, which the methods below take and return.
\* exc is the exception in flight ("none": the method returned).
M ==
  [state |-> aasm_state, temp |-> temp, parsed |-> _parsed, paused |-> paused,
   missing |-> _missing_line, line |-> _current_line, num |-> _current_line_num,
   read |-> _read_lines, pos |-> pos, warnings |-> warnings, errors |-> errors,
   sub |-> sub, stop |-> stop_level, exc |-> exception, raised |-> raised,
   status |-> status]

Raise(m, e) == [m EXCEPT !.exc = e]

(***************************************************************************)
(* Parser (parsers/base.py).                                               *)
(***************************************************************************)
LEVELS == <<"warning", "error">>

\* a default that stops at nothing
NoStopLevel == "None"

\* __init__(self, stop_level = "error")
DefaultStopLevel == "error"

\* LEVELS.index(level)
LevelIndex(level) == (CHOOSE i \in 1..Len(LEVELS) : LEVELS[i] = level) - 1

ParserErrorMessage(line_number, column, line, description) ==
  [line_number |-> line_number, col |-> column, line |-> line,
   description |-> description]

\* _add_msg that compares the levels with > instead of >=
_add_msg_above(m, level, line_number, column, line, description) ==
  IF m.stop # "None" /\ LevelIndex(level) > LevelIndex(m.stop)
  THEN [m EXCEPT !.exc = IF level = "warning" THEN "ParseWarning" ELSE "ParseError",
                 !.raised = Some(ParserErrorMessage(line_number, column, line, description))]
  ELSE IF level = "warning"
  THEN [m EXCEPT !.warnings = Append(@, ParserErrorMessage(line_number, column, line, description))]
  ELSE [m EXCEPT !.errors = Append(@, ParserErrorMessage(line_number, column, line, description))]

_add_msg(m, level, line_number, column, line, description) ==
  IF m.stop # "None" /\ LevelIndex(level) >= LevelIndex(m.stop)
  THEN [m EXCEPT !.exc = IF level = "warning" THEN "ParseWarning" ELSE "ParseError",
                 !.raised = Some(ParserErrorMessage(line_number, column, line, description))]
  ELSE IF level = "warning"
  THEN [m EXCEPT !.warnings = Append(@, ParserErrorMessage(line_number, column, line, description))]
  ELSE [m EXCEPT !.errors = Append(@, ParserErrorMessage(line_number, column, line, description))]

add_warning(m, line_number, column, line, description) ==
  _add_msg(m, "warning", line_number, column, line, description)

add_error(m, line_number, column, line, description) ==
  _add_msg(m, "error", line_number, column, line, description)

\* readline() returns '' at the end of the data
AtEnd(m) == m.pos >= Len(data)

\* _next_line that keeps no history
_next_line_unrecorded(m) ==
  [m EXCEPT !.num = @ + 1,
            !.line = Some(rstrip(data[m.pos + 1])),
            !.pos = @ + 1]

\* _next_line that does not count the line
_next_line_uncounted(m) ==
  [m EXCEPT !.line = Some(rstrip(data[m.pos + 1])),
            !.read = Append(@, data[m.pos + 1]),
            !.pos = @ + 1]

\* _next_line when readline() returns a line
_next_line(m) ==
  [m EXCEPT !.num = @ + 1,
            !.line = Some(rstrip(data[m.pos + 1])),
            !.read = Append(@, data[m.pos + 1]),
            !.pos = @ + 1]

\* how a call of a cursor method ends: "returned" or the exception, the
\* line it returns, what _next_line returns, the message of the exception
Answer(op, arg, kind, value, more, message) ==
  [op |-> op, index |-> arg, kind |-> kind, value |-> value, more |-> more,
   message |-> message]

\* _fetch_line without the test of the index
FetchAny(history, num, line) ==
  With(IF line < 0 THEN Len(history) + line ELSE line, LAMBDA k :
    IF k < 0 \/ k >= Len(history)
    THEN Answer("_fetch_line", line, "IndexError", <<>>, FALSE,
                "list index out of range")
    ELSE Answer("_fetch_line", line, "returned", rstrip(history[k + 1]), FALSE, ""))

\* Parser._fetch_line(line) with the history and the line number num:
\* self._read_lines[line] is a list index, which counts from the end when
\* it is negative
Fetch(history, num, line) ==
  IF line > num
  THEN Answer("_fetch_line", line, "ValueError", <<>>, FALSE, "Cannot seek forward.")
  ELSE With(IF line < 0 THEN Len(history) + line ELSE line, LAMBDA k :
         IF k < 0 \/ k >= Len(history)
         THEN Answer("_fetch_line", line, "IndexError", <<>>, FALSE,
                     "list index out of range")
         ELSE Answer("_fetch_line", line, "returned", rstrip(history[k + 1]), FALSE, ""))

\* _fetch_line(line) as the state machine calls it: it passes
\* current_line_num after a line was read, and takes what is returned
_fetch_line(m, line) == Fetch(m.read, m.num, line).value

(***************************************************************************)
(* SubRipStateMachine (parsers/subrip.py): the callbacks.                  *)
(***************************************************************************)
\* raise self.Skip, reached when the call before it returned
ThenSkip(m) == IF m.exc = "none" THEN Raise(m, "Skip") ELSE m

\* self.current_line
Line(m) == m.line[1]

\* the dict a new unit starts as
NewUnit(sequence) == [sequence |-> sequence, data |-> [lines |-> <<>>]]

\* self.temp['data']['lines'] += ls
AddLines(m, ls) ==
  [m EXCEPT !.temp = Some([m.temp[1] EXCEPT !.data.lines = @ \o ls])]

\* self.temp['sequence'] if self.temp else 0
PreviousSeq(m) == IF m.temp # None THEN m.temp[1].sequence ELSE 0

\* validate_unit that takes the number as it is written
validate_unit_as_written(m) ==
  IF m.state = "unit_text"
  THEN [m EXCEPT !.temp = Some([m.temp[1] EXCEPT !.data.lines =
                                  SubSeq(@, 1, Len(@) - 1)])]
  ELSE m

\* @before('found_sequence')
validate_unit(m) ==
  IF int(strip(Line(m))) - PreviousSeq(m) # 1
  THEN ThenSkip(add_warning(
         [m EXCEPT !.paused = TRUE, !.line = Some(str(PreviousSeq(m) + 1))],
         m.num + 1, 1, _fetch_line(m, m.num), "Sequence number out of sync"))
  ELSE IF m.state = "unit_text"
  THEN [m EXCEPT !.temp = Some([m.temp[1] EXCEPT !.data.lines =
                                  SubSeq(@, 1, Len(@) - 1)])]
  ELSE m

\* create_unit without "self._parsed = self.temp": the unit that was in
\* progress is not handed over
create_unit_no_handover(m) ==
  [m EXCEPT !.temp = Some(NewUnit(int(strip(Line(m)))))]

\* @after('found_sequence')
create_unit(m) ==
  [m EXCEPT !.parsed = m.temp,
            !.temp = Some(NewUnit(int(strip(Line(m)))))]

\* the two matches of parse_time and validate_header, given the parts of
\* current_line.split('-->')
Timings(parts) ==
  [start |-> _time(strip(parts[1])), end |-> _time(strip(parts[2]))]

\* @after('found_header')
\* unpacking the split raises ValueError unless it has two parts, and
\* group(0) of a failed match raises AttributeError
parse_time(m) ==
  With(split(Line(m), Arrow), LAMBDA parts :
    IF Len(parts) # 2 THEN Raise(m, "ValueError")
    ELSE With(Timings(parts), LAMBDA t :
      IF t.start = <<>> \/ t.end = <<>> THEN Raise(m, "AttributeError")
      ELSE [m EXCEPT !.temp = Some([m.temp[1] EXCEPT !.data =
              [start |-> convert(t.start), end |-> convert(t.end)] @@ @])]))

\* @after('skip_sequence')
fix_sequence_skip(m) ==
  parse_time([m EXCEPT !.parsed = m.temp,
                       !.temp = Some(NewUnit(PreviousSeq(m) + 1))])

\* the event skip_sequence: unit_text, start -> unit_text
skip_sequence(m) ==
  IF m.state \notin {"unit_text", "start"}
  THEN Raise(m, "InvalidStateTransition")
  ELSE fix_sequence_skip([m EXCEPT !.state = "unit_text"])

\* validate_header from "# Re-check header" on, given the match
RecheckHeader(m, h) ==
  IF h.g2 # <<>>
  THEN ThenSkip(add_warning(
         [m EXCEPT !.line = Some(h.g1), !.paused = TRUE],
         m.num + 1, index(Line(m), h.g2) + 1, _fetch_line(m, m.num),
         "Header has unrecognized content at the end."))
  ELSE With(split(Line(m), Arrow), LAMBDA parts :
    IF Len(parts) # 2 THEN Raise(m, "ValueError")
    ELSE With(Timings(parts), LAMBDA t :
      IF t.start = <<>> \/ t.end = <<>>
      THEN ThenSkip(add_error(m, m.num + 1, 1, _fetch_line(m, m.num),
                              "Could not parse timings."))
      ELSE m))

\* the warning of validate_header in state start, after self.skip_sequence()
AfterSkipSequence(m) ==
  IF m.exc # "none" THEN m
  ELSE ThenSkip(add_warning(m, m.num + 1, 1, Line(m),
                            "New unit starts without a sequence."))

\* validate_header that takes a header in UnitText as the header of the unit
validate_header_again(m) ==
  IF m.state = "start"
  THEN AfterSkipSequence(skip_sequence(m))
  ELSE IF Contains(Line(m), <<".">>)
  THEN ThenSkip(add_warning(
         [m EXCEPT !.paused = TRUE,
                   !.line = Some(replace1(Line(m), <<".">>, <<",">>))],
         m.num + 1, index(Line(m), <<".">>) + 1, _fetch_line(m, m.num),
         "Used dot as decimal separator instead of comma."))
  ELSE RecheckHeader(m, _header(Line(m)))

\* @before('found_header')
validate_header(m) ==
  IF m.state = "unit_text"
  THEN ThenSkip(add_warning(m, m.num + 1, 1, Line(m),
                            "Duplicated time information, ignoring."))
  ELSE IF m.state = "start"
  THEN AfterSkipSequence(skip_sequence(m))
  ELSE IF Contains(Line(m), <<".">>)
  THEN ThenSkip(add_warning(
         [m EXCEPT !.paused = TRUE,
                   !.line = Some(replace1(Line(m), <<".">>, <<",">>))],
         m.num + 1, index(Line(m), <<".">>) + 1, _fetch_line(m, m.num),
         "Used dot as decimal separator instead of comma."))
  ELSE RecheckHeader(m, _header(Line(m)))

\* validate_text that adds no empty line
validate_text_unspaced(m) ==
  IF m.state = "start" /\ m.temp = None
  THEN ThenSkip(add_warning(m, m.num + 1, 1, Line(m), "Junk before first unit."))
  ELSE m

\* @before('found_text')
validate_text(m) ==
  IF m.state = "start"
  THEN IF m.temp # None THEN AddLines(m, <<Blank>>)
       ELSE ThenSkip(add_warning(m, m.num + 1, 1, Line(m),
                                 "Junk before first unit."))
  ELSE m

\* [i.rstrip() for i in s.split('|')]
TextLines(s) ==
  With(split(s, <<"|">>), LAMBDA ls : [i \in 1..Len(ls) |-> rstrip(ls[i])])

\* insert_text once the tagged header is taken off the line: rest is what is
\* left of the tag (tagged), m has the shortened line and the position
InsertLines(m, rest) ==
  IF rest # <<>>
  THEN ThenSkip(add_warning(AddLines(m, TextLines(Line(m))), m.num + 1, 1,
                            _fetch_line(m, m.num),
                            "Tagged header not fully parsed."))
  ELSE AddLines(m, TextLines(Line(m)))

\* insert_text for a line that starts with a tagged header, given the
\* match of the position in the tag
InsertTagged(m, tag, p) ==
  IF p.ok
  THEN InsertLines(
         [m EXCEPT !.temp = Some([m.temp[1] EXCEPT !.data =
                      [position |-> [x |-> p.x, y |-> p.y]] @@ @])],
         replace1(tag, p.g0, <<>>))
  ELSE InsertLines(m, tag)

\* insert_text, given the match of the tagged header
InsertMatched(m, tagged) ==
  IF tagged.ok
  THEN InsertTagged([m EXCEPT !.line = Some(SubSeq(Line(m), tagged.len + 1, Len(Line(m))))],
                    tagged.g1, _tag_position(tagged.g1))
  ELSE InsertLines(m, <<>>)

\* @after('found_text')
insert_text(m) == InsertMatched(m, _tagged_header(Line(m)))

\* validate_empty that lets an empty line end a unit without timings
validate_empty_in_start_only(m) ==
  IF m.state = "start"
  THEN IF m.temp # None THEN AddLines(m, <<Blank>>)
       ELSE ThenSkip(add_warning(m, m.num + 1, 1, _fetch_line(m, m.num),
                                 "Have empty line before first unit."))
  ELSE m

\* @before('found_empty')
validate_empty(m) ==
  IF m.state = "start"
  THEN IF m.temp # None THEN AddLines(m, <<Blank>>)
       ELSE ThenSkip(add_warning(m, m.num + 1, 1, _fetch_line(m, m.num),
                                 "Have empty line before first unit."))
  ELSE IF m.state = "unit"
  THEN ThenSkip(add_warning(m, m.num + 1, 1, _fetch_line(m, m.num),
         "Have empty line between sequence number and timings."))
  ELSE m

\* @after('found_empty')
insert_empty(m) == m

\* final_unit that does not look at the state: a line is always missing
final_unit_any_state(m) == [m EXCEPT !.missing = TRUE]

\* @before('done'): the first of the two methods named final_unit
final_unit_before(m) == [m EXCEPT !.missing = (m.state # "start")]

\* final_unit that raises Skip before the unit in progress is handed over
final_unit_lost(m) ==
  IF m.missing
  THEN ThenSkip(add_warning([m EXCEPT !.temp = None],
                            m.num + 1, Len(Line(m)), _fetch_line(m, m.num),
                            "Missing empty line after unit."))
  ELSE [m EXCEPT !.parsed = m.temp, !.temp = None]

\* @after('done'): the second of the two methods named final_unit
final_unit(m) ==
  IF m.missing
  THEN ThenSkip(add_warning([m EXCEPT !.parsed = m.temp, !.temp = None],
                            m.num + 1, Len(Line(m)), _fetch_line(m, m.num),
                            "Missing empty line after unit."))
  ELSE [m EXCEPT !.parsed = m.temp, !.temp = None]

(***************************************************************************)
(* The events.  An event called in a state outside its from_states raises  *)
(* InvalidStateTransition; otherwise its @before callback runs, and when   *)
(* that returns the state becomes to_state and the @after callback runs.   *)
(***************************************************************************)
\* the state becomes to_state unless the @before callback raised
Enter(m, to_state) ==
  IF m.exc # "none" THEN m ELSE [m EXCEPT !.state = to_state]

\* the @after callback runs unless the @before callback raised
AfterSequence(m) == IF m.exc # "none" THEN m ELSE create_unit(m)
AfterHeader(m) == IF m.exc # "none" THEN m ELSE parse_time(m)
AfterText(m) == IF m.exc # "none" THEN m ELSE insert_text(m)
AfterEmpty(m) == IF m.exc # "none" THEN m ELSE insert_empty(m)

\* found_sequence = Event(from_states = [start], to_state = unit)
found_sequence(m) ==
  IF m.state \notin {"start"} THEN Raise(m, "InvalidStateTransition")
  ELSE AfterSequence(Enter(validate_unit(m), "unit"))

\* found_header = Event(from_states = [unit, unit_text, start], to_state = unit_text)
found_header(m) ==
  IF m.state \notin {"unit", "unit_text", "start"}
  THEN Raise(m, "InvalidStateTransition")
  ELSE AfterHeader(Enter(validate_header(m), "unit_text"))

\* found_text as an event from every state but Finished
found_text_from_unit(m) ==
  IF m.state \notin {"unit", "unit_text", "start"}
  THEN Raise(m, "InvalidStateTransition")
  ELSE AfterText(Enter(validate_text(m), "unit_text"))

\* found_text = Event(from_states = [unit_text, start], to_state = unit_text)
found_text(m) ==
  IF m.state \notin {"unit_text", "start"} THEN Raise(m, "InvalidStateTransition")
  ELSE AfterText(Enter(validate_text(m), "unit_text"))

\* found_empty = Event(from_states = [unit_text, start, unit], to_state = start)
found_empty(m) ==
  IF m.state \notin {"unit_text", "start", "unit"}
  THEN Raise(m, "InvalidStateTransition")
  ELSE AfterEmpty(Enter(validate_empty(m), "start"))

\* done = Event(from_states = [unit, unit_text, start], to_state = finished)
done(m) ==
  IF m.state \notin {"unit", "unit_text", "start"}
  THEN Raise(m, "InvalidStateTransition")
  ELSE final_unit(Enter(final_unit_before(m), "finished"))

(***************************************************************************)
(* One turn of the loop of SubRipParser._parse, with the body of the loop  *)
(* of Parser.parse that consumes what the turn yields.                     *)
(***************************************************************************)
\* iterate: "if not self.need_pause(): if not self.next_line()", when there
\* is a line to go on with
Advance(m) ==
  IF m.paused THEN [m EXCEPT !.paused = FALSE] ELSE _next_line(m)

\* iterate: no pause is asked for and readline() is at the end
NoLine(m) == ~m.paused /\ AtEnd(m)

\* iterate: the event it calls for the current line
EventOf(m) ==
  IF strip(Line(m)) = <<>> THEN "found_empty"
  ELSE IF m.state = "start" /\ _sequence(Line(m)) THEN "found_sequence"
  ELSE IF _header(Line(m)).ok THEN "found_header"
  ELSE "found_text"

\* iterate, from the test of the empty line on
Dispatch(m) ==
  IF EventOf(m) = "found_empty" THEN found_empty(m)
  ELSE IF EventOf(m) = "found_sequence" THEN found_sequence(m)
  ELSE IF EventOf(m) = "found_header" THEN found_header(m)
  ELSE found_text(m)

\* iterate
iterate(m) == IF NoLine(m) THEN done(m) ELSE Dispatch(Advance(m))

\* Parser.parse, the body of its for loop: SubtitleUnit(**unit["data"])
\* raises TypeError unless data has start and end
Consume(m, unit) ==
  IF {"start", "end"} \subseteq DOMAIN unit.data
  THEN [m EXCEPT !.sub = Append(@, unit.data)]
  ELSE add_error(m, m.num + 1, 1, Line(m),
                 "Wrongly parsed unit, might be a result of a previous error.")

\* parsed() and "if parsed: yield parsed"
parsed(m) ==
  IF m.parsed = None THEN m
  ELSE Consume([m EXCEPT !.parsed = None], m.parsed[1])

\* how the turn ends when no exception is caught: an exception of the
\* consumer leaves parse, and a finished machine breaks the loop
Break(m) ==
  IF m.exc # "none" THEN [m EXCEPT !.status = "raised"]
  ELSE IF m.state = "finished" THEN [m EXCEPT !.status = "finished"]
  ELSE m

\* how the turn ends after "except InvalidStateTransition"
Unparsable(m) ==
  IF m.exc # "none" THEN [m EXCEPT !.status = "raised"] ELSE m

\* the rest of the turn after iterate() has returned or raised
Turn(m) ==
  IF m.exc = "none" THEN Break(parsed(m))
  ELSE IF m.exc = "Skip" THEN [m EXCEPT !.exc = "none"]
  ELSE IF m.exc = "InvalidStateTransition"
  THEN Unparsable(add_error([m EXCEPT !.exc = "none"], m.num + 1, 1, Line(m),
                            "Unparsable line"))
  ELSE IF m.exc \in {"ParseWarning", "ParseError"}
  THEN [m EXCEPT !.status = "raised"]
  ELSE [m EXCEPT !.status = "crashed"]

\* one turn of "while True": iterate() unless the machine has finished,
\* then what is parsed is yielded and a finished machine breaks the loop
Loop(m) ==
  IF m.state # "finished" THEN Turn(iterate(m)) ELSE Break(parsed(m))

\* Parser.parse: the turns from m on, until parse returns or raises
RECURSIVE parse(_)
parse(m) == IF m.status # "running" THEN m ELSE parse(Loop(m))

\* Parser.__init__ and SubRipStateMachine.__init__: the attributes of a new
\* parser with the given stop level and of its machine
__init__(level) ==
  [state |-> "start", temp |-> None, parsed |-> None, paused |-> FALSE,
   missing |-> FALSE, line |-> None, num |-> -1, read |-> <<>>, pos |-> 0,
   warnings |-> <<>>, errors |-> <<>>, sub |-> <<>>, stop |-> level,
   exc |-> "none", raised |-> None, status |-> "running"]

\* the state after the turn
Becomes(m) ==
  /\ aasm_state' = m.state
  /\ temp' = m.temp
  /\ _parsed' = m.parsed
  /\ paused' = m.paused
  /\ _missing_line' = m.missing
  /\ _current_line' = m.line
  /\ _current_line_num' = m.num
  /\ _read_lines' = m.read
  /\ pos' = m.pos
  /\ warnings' = m.warnings
  /\ errors' = m.errors
  /\ sub' = m.sub
  /\ exception' = m.exc
  /\ raised' = m.raised
  /\ status' = m.status
  /\ UNCHANGED <<units, gap, data, stop_level>>
  /\ UNCHANGED <<stream_vars, export_vars, cursor_vars, session_vars, microdvd_vars>>

\* the loop is running and the machine has not finished: iterate() is called
Iterating == status = "running" /\ aasm_state # "finished"

\* iterate finds no line: done()
Done ==
  /\ Iterating
  /\ NoLine(M)
  /\ Becomes(Loop(M))

\* iterate finds an empty line: found_empty()
FoundEmpty ==
  /\ Iterating
  /\ ~NoLine(M)
  /\ EventOf(Advance(M)) = "found_empty"
  /\ Becomes(Loop(M))

\* iterate finds a sequence number in state start: found_sequence()
FoundSequence ==
  /\ Iterating
  /\ ~NoLine(M)
  /\ EventOf(Advance(M)) = "found_sequence"
  /\ Becomes(Loop(M))

\* iterate finds a header: found_header()
FoundHeader ==
  /\ Iterating
  /\ ~NoLine(M)
  /\ EventOf(Advance(M)) = "found_header"
  /\ Becomes(Loop(M))

\* iterate finds anything else: found_text()
FoundText ==
  /\ Iterating
  /\ ~NoLine(M)
  /\ EventOf(Advance(M)) = "found_text"
  /\ Becomes(Loop(M))

\* the machine finished in a turn that raised Skip: the next turn does not
\* iterate, yields what is parsed and breaks
Drain ==
  /\ status = "running"
  /\ aasm_state = "finished"
  /\ Becomes(Loop(M))

(***************************************************************************)
(* The specification.                                                      *)
(***************************************************************************)
\* the documents that are parsed, each with the unit before which a sequence
\* number is left out (0: none is): units of every shape, regular units,
\* regular units followed by a blank line with a number left out, and
\* regular units followed by a unit that ends the document, and regular
\* units and units with blank lines in their text
Documents ==
  UNION {[1..n -> Shapes] \X {0} : n \in 1..MaxUnits}
  \cup UNION {[1..n -> RegShapes] \X {0} : n \in 1..MaxRegUnits}
  \cup UNION {[1..n -> SepShapes] \X (1..n) : n \in 1..MaxGapUnits}
  \cup UNION {{Append(d, e) : d \in [1..n -> SepShapes], e \in EndShapes} \X {0} :
                n \in 0..(MaxUnits - 1)}
  \cup UNION {[1..n -> SepShapes \cup GapShapes] \X {0} : n \in 1..MaxUnits}

Init ==
  /\ \E d \in Documents : units = d[1] /\ gap = d[2]
  /\ data = RawLines(units, gap)
  /\ pos = 0
  /\ stop_level \in {"warning", "None", DefaultStopLevel}
  /\ warnings = <<>>
  /\ errors = <<>>
  /\ _read_lines = <<>>
  /\ _current_line_num = -1
  /\ _current_line = None
  /\ aasm_state = "start"
  /\ temp = None
  /\ _parsed = None
  /\ paused = FALSE
  /\ _missing_line = FALSE
  /\ sub = <<>>
  /\ exception = "none"
  /\ raised = None
  /\ status = "running"
  /\ NoStream
  /\ NoExport
  /\ NoCursor
  /\ NoSession
  /\ NoMicroDVD

Next ==
  \/ Done
  \/ FoundEmpty
  \/ FoundSequence
  \/ FoundHeader
  \/ FoundText
  \/ Drain

Spec == Init /\ [][Next]_vars

(***************************************************************************)
(* Encoding detection (parsers/encodings.py).  A buffer is a sequence of   *)
(* bytes, of which three kinds are told apart after an optional byte-order *)
(* mark: "a" (ASCII), "x9e" and "xff".  detect is handed the buffer as     *)
(* Parser.parse and Parser.from_data hand it over: rewound by              *)
(* _normalize_data.                                                        *)
(***************************************************************************)
BOM_UTF8 == <<"xef", "xbb", "xbf">>
BOM_UTF16 == <<"xff", "xfe">>
BodyBytes == {"a", "x9e", "xff"}
\* the bytes from 0x80 on
HighBytes == {"x9e", "xbb", "xbf", "xef", "xfe", "xff"}

\* the names Python has a codec for, among those that are tried here
Codecs == {"ascii", "utf-8", "utf-16", "ISO-8859-2", "windows-1250", "koi8-r",
           "TIS-620", "GB2312", "GB18030"}

\* similar_encodings read in both directions
similar_either_way(encoding) ==
  CASE encoding \in {"ISO-8859-2", "windows-1250"} ->
         {"ISO-8859-2", "windows-1250"} \ {encoding}
    [] encoding \in {"windows-1255", "windows-1256"} ->
         {"windows-1255", "windows-1256"} \ {encoding}
    [] encoding \in {"GB2312", "GB18030"} -> {"GB2312", "GB18030"} \ {encoding}
    [] encoding \in {"EUC-TW", "BIG5-TW"} -> {"EUC-TW", "BIG5-TW"} \ {encoding}
    [] OTHER -> {}

\* similar_encodings.get(encoding), as a set
similar_encodings(encoding) ==
  CASE encoding = "ISO-8859-2" -> {"windows-1250"}
    [] encoding = "windows-1255" -> {"windows-1256"}
    [] encoding = "GB2312" -> {"GB18030"}
    [] encoding = "EUC-TW" -> {"BIG5-TW"}
    [] OTHER -> {}

\* the rows of the table for the languages that are passed here; every
\* other row gives one encoding for one language in the same way
guess_from_lang(lang) ==
  CASE lang = "sl" -> <<"windows-1250">>
    [] lang = "ru" -> <<"koi8-r">>
    [] OTHER -> <<>>

startswith(s, prefix) ==
  Len(s) >= Len(prefix) /\ SubSeq(s, 1, Len(prefix)) = prefix

\* data.read(n) at the given position
read(buf, cursor, n) == SubSeq(buf, cursor + 1, Min(cursor + n, Len(buf)))

Holds(buf, byte) == \E k \in 1..Len(buf) : buf[k] = byte

\* the bytes from position i on are characters of GB18030: an ASCII byte,
\* or 0x9E followed by a byte from 0x40 to 0xFE other than 0x7F ("a" and
\* "x9e" of the bytes that follow a high byte here)
RECURSIVE GB18030(_, _)
GB18030(buf, i) ==
  IF i > Len(buf) THEN TRUE
  ELSE IF buf[i] \notin HighBytes THEN GB18030(buf, i + 1)
  ELSE IF buf[i] = "x9e" /\ i < Len(buf) /\ buf[i + 1] \in {"a", "x9e"}
  THEN GB18030(buf, i + 2)
  ELSE FALSE

\* io.TextIOWrapper(data, encoding) read to its end, for a buffer without a
\* byte-order mark: "text", "invalid" (text that holds the character
\* U+009E, which is in invalid_chars), or the exception that is raised
TextIOWrapper(buf, encoding) ==
  CASE encoding \in {"ascii", "utf-8", "TIS-620", "GB2312"} ->
         IF \A k \in 1..Len(buf) : buf[k] \notin HighBytes THEN "text" ELSE "UnicodeDecodeError"
    [] encoding = "ISO-8859-2" ->
         IF Holds(buf, "x9e") THEN "invalid" ELSE "text"
    [] encoding \in {"windows-1250", "koi8-r"} -> "text"
    [] encoding = "GB18030" ->
         IF GB18030(buf, 1) THEN "text" ELSE "UnicodeDecodeError"
    [] encoding = "utf-16" ->
         IF Len(buf) = 0 THEN "text"
         ELSE IF Len(buf) = 1 THEN "UnicodeDecodeError"
         ELSE "UnicodeError"
    [] OTHER -> "LookupError"

\* can_decode that catches UnicodeDecodeError only
CanDecodeNoLookup(buf, read_as) ==
  IF read_as \in {"text", "invalid", "UnicodeDecodeError"}
  THEN [proper |-> read_as = "text", exc |-> "none", cursor |-> 0]
  ELSE [proper |-> FALSE, exc |-> read_as, cursor |-> Len(buf)]

\* can_decode: whether the buffer reads as text in the encoding, the
\* exception that leaves it ("none": it returned) and where the buffer then
\* stands.  Only UnicodeDecodeError and LookupError are caught; another
\* exception leaves the reader attached and the buffer where it was read to.
CanDecodeOf(buf, read_as) ==
  IF read_as \in {"text", "invalid", "UnicodeDecodeError", "LookupError"}
  THEN [proper |-> read_as = "text", exc |-> "none", cursor |-> 0]
  ELSE [proper |-> FALSE, exc |-> read_as, cursor |-> Len(buf)]

can_decode(buf, encoding) == CanDecodeOf(buf, TextIOWrapper(buf, encoding))

\* a list that holds one member of the set only
list_one(s) == IF s = {} THEN <<>> ELSE <<CHOOSE x \in s : TRUE>>

\* list(s) of a set: its members, each once, in an order the hashes decide
list(s) ==
  CHOOSE q \in [1..Cardinality(s) -> s] : \A x \in s : \E k \in DOMAIN q : q[k] = x

\* a candidate of the list `encodings`: a name (confidence None) or the
\* tuple (name, confidence) of chardet
Candidate(name, confidence) == [name |-> name, confidence |-> confidence]
Names(q) == [k \in 1..Len(q) |-> Candidate(q[k], None)]

\* how a call of detect ends: "returned" with its value, or the exception
\* that leaves it; the names can_decode was called with, in order; and
\* where the buffer then stands
Outcome(kind, value, message, tried_encodings, attempted, cursor) ==
  [kind |-> kind, value |-> value, message |-> message,
   tried_encodings |-> tried_encodings, attempted |-> attempted, cursor |-> cursor]

\* the list left as it is
Unreversed(q) == q

Reverse(q) == [k \in 1..Len(q) |-> q[Len(q) + 1 - k]]

\* the while loop of detect, from encodings.pop() on
RECURSIVE Trials(_, _, _, _)
Rejected(buf, encodings, tried_encodings, attempted) ==
  IF encodings = <<>>
  THEN Outcome("EncodingError", None, "Could not detect proper encoding",
               list(tried_encodings), attempted, 0)
  ELSE Trials(buf, encodings, tried_encodings, attempted)

Tried(buf, encoding, c, rest, tried_encodings, attempted) ==
  IF c.exc # "none"
  THEN Outcome(c.exc, None, "", <<>>, attempted, c.cursor)
  ELSE IF c.proper
  THEN Outcome("returned", <<encoding.name, encoding.confidence>>, "", <<>>,
               attempted, 0)
  ELSE Rejected(buf,
                rest \o Names(list(similar_encodings(encoding.name)
                                     \ (tried_encodings \cup {encoding.name}))),
                tried_encodings \cup {encoding.name}, attempted)

Trials(buf, encodings, tried_encodings, attempted) ==
  Tried(buf, encodings[Len(encodings)],
        can_decode(buf, encodings[Len(encodings)].name),
        SubSeq(encodings, 1, Len(encodings) - 1), tried_encodings,
        Append(attempted, encodings[Len(encodings)].name))

\* the list `encodings` before it is reversed: the hint, the guesses from
\* the language, what chardet detected
Gathered(encoding, language, detected) ==
  Names(encoding)
    \o Names(IF language = None THEN <<>> ELSE guess_from_lang(language[1]))
    \o detected

FromCandidates(buf, encodings) ==
  IF encodings = <<>>
  THEN Outcome("EncodingError", None, "Have no clue where to start.", <<>>, <<>>, 0)
  ELSE Trials(buf, Reverse(encodings), {}, <<>>)

\* detect that does not look for a byte-order mark
detect_no_bom(buf, cursor, encoding, language, detected) ==
  FromCandidates(buf, Gathered(encoding, language, detected))

\* detect on a buffer that stands at cursor: encoding and language are the
\* hints (None or one name), detected is what chardet.detect gives for the
\* whole buffer (None or one candidate)
detect(buf, cursor, encoding, language, detected) ==
  IF startswith(read(buf, cursor, 8), BOM_UTF8)
  THEN Outcome("returned", <<"utf-8-sig", None>>, "", <<>>, <<>>, 0)
  ELSE IF startswith(read(buf, cursor, 8), BOM_UTF16)
  THEN Outcome("returned", <<"utf16", None>>, "", <<>>, <<>>, 0)
  ELSE FromCandidates(buf, Gathered(encoding, language, detected))

(***************************************************************************)
(* Format detection: the sniffers of the parsers and the registry          *)
(* (parsers/subrip.py, parsers/microdvd.py, parsers/base.py).              *)
(***************************************************************************)
\* range(0, 10) of _can_parse
SniffLines == 10

\* the lines readline() returns from position cursor on, each with its
\* line end
RECURSIVE readlines(_, _)
readlines(buf, cursor) ==
  IF cursor >= Len(buf) THEN <<>>
  ELSE With(FindFrom(buf, <<"\n">>, cursor + 1), LAMBDA p :
         IF p = 0 THEN <<SubSeq(buf, cursor + 1, Len(buf))>>
         ELSE <<SubSeq(buf, cursor + 1, p)>> \o readlines(buf, p))

\* the position of the first c in s from position i on (Len(s)+1 if none)
RECURSIVE Next1(_, _, _)
Next1(s, i, c) ==
  IF i > Len(s) \/ s[i] = c THEN i ELSE Next1(s, i + 1, c)

\* . * $ from position i on: no line end but a last one
ToEnd(s, i) == \A k \in i..Len(s) : s[k] = "\n" => k = Len(s)

\* (?:[^:]+:){2} from position i on: the position after the second colon,
\* 0 when there is no match
TwoFields(s, i) ==
  With(Next1(s, i, ":"), LAMBDA c1 :
    With(Next1(s, c1 + 1, ":"), LAMBDA c2 :
      IF c1 > i /\ c1 <= Len(s) /\ c2 > c1 + 1 /\ c2 <= Len(s) THEN c2 + 1 ELSE 0))

\* [^- ]+\s+ between positions p and a - 1
BeforeArrow(s, p, a) ==
  \E e \in (p + 1)..(a - 1) :
    /\ \A k \in p..(e - 1) : s[k] # " "
    /\ \A k \in e..(a - 1) : s[k] \in Space

\* \s+(?:[^:]+:){2}.*$ from position b on
AfterArrow(s, b) ==
  /\ b <= Len(s)
  /\ s[b] \in Space
  /\ With(TwoFields(s, b), LAMBDA r : r # 0 /\ Next1(s, b, ":") > b + 1 /\ ToEnd(s, r))

\* SubRipParser.FORMAT_RE.search(line):
\* ^(?:[^:]+:){2}[^- ]+\s+-->\s+(?:[^:]+:){2}.*$
SubRip_FORMAT_RE(s) ==
  With(TwoFields(s, 1), LAMBDA p :
    /\ p # 0
    /\ With(Next1(s, p, "-"), LAMBDA a :
         /\ StartsWithAt(s, a, Arrow)
         /\ BeforeArrow(s, p, a)
         /\ AfterArrow(s, a + 3)))

\* {\d+} from position i on: the position after it, 0 when there is no match
Braced(s, i) ==
  With(Span(s, i + 1, Digit), LAMBDA d :
    IF i <= Len(s) /\ s[i] = "{" /\ d > i + 1 /\ d <= Len(s) /\ s[d] = "}"
    THEN d + 1 ELSE 0)

\* MicroDVDParser.FORMAT_RE.search(line), for a line as readline returns it:
\* ^\{(\d+)\}\{(\d+)\}((:?\{[^}]+\})*)(.*)$ matches at the start of the line
MicroDVD_FORMAT_RE(s) ==
  With(Braced(s, 1), LAMBDA p : p # 0 /\ Braced(s, p) # 0)

FORMAT_RE(cls, s) ==
  IF cls = "SubRip" THEN SubRip_FORMAT_RE(s) ELSE MicroDVD_FORMAT_RE(s)

\* a loop that reads on until a line matches
FirstMatchOfAll(cls, lines, i) ==
  IF \E k \in i..Len(lines) : FORMAT_RE(cls, lines[k])
  THEN CHOOSE k \in i..Len(lines) :
         /\ FORMAT_RE(cls, lines[k])
         /\ \A j \in i..(k - 1) : ~FORMAT_RE(cls, lines[j])
  ELSE 0

\* the loop of _can_parse over the lines readline returns: the number of
\* the first line among the first SniffLines that matches, 0 if none does
RECURSIVE FirstMatch(_, _, _)
FirstMatch(cls, lines, i) ==
  IF i > SniffLines \/ i > Len(lines) THEN 0
  ELSE IF FORMAT_RE(cls, lines[i]) THEN i
  ELSE FirstMatch(cls, lines, i + 1)

\* _can_parse of a class on the lines that are read: whether it can, and
\* how many times readline was called (at the end of the data it returns
\* an empty line, which does not match)
_can_parse(cls, lines) ==
  With(FirstMatch(cls, lines, 1), LAMBDA m :
    [can |-> m # 0, readline |-> IF m # 0 THEN m ELSE SniffLines])

\* Parser.__subclasses__(): the parsers, in the order parsers/__init__.py
\* imports their modules
Registry == <<"SubRip", "MicroDVD">>

\* Parser.can_parse: _normalize_data rewinds the data, then _can_parse
can_parse(cls, buf) == _can_parse(cls, readlines(buf, 0))

\* a loop that asks every class
AskedAll(buf, i) == SubSeq(Registry, i, Len(Registry))

\* the loop of from_data: the classes whose can_parse is called, in order,
\* up to the first that can parse
RECURSIVE AskedFrom(_, _)
AskedFrom(buf, i) ==
  IF i > Len(Registry) THEN <<>>
  ELSE IF can_parse(Registry[i], buf).can THEN <<Registry[i]>>
  ELSE <<Registry[i]>> \o AskedFrom(buf, i + 1)

\* from_format: the class whose FORMAT is the name, None if there is none
RECURSIVE FormatFrom(_, _)
FormatFrom(format, i) ==
  IF i > Len(Registry) THEN None
  ELSE IF Registry[i] = format THEN Some(Registry[i])
  ELSE FormatFrom(format, i + 1)

from_format(format) == FormatFrom(format, 1)

(***************************************************************************)
(* Calls on a stream: encodings.detect, Parser.can_parse and               *)
(* Parser.from_data, one after another on the same stream.                 *)
(***************************************************************************)
\* Parser.from_data from encodings.detect on: what detect ended with, then
\* the classes that are asked, and the parser that is returned (None:
\* NoParserError)
FromDetected(buf, d) ==
  IF d.kind # "returned"
  THEN [op |-> "from_data", kind |-> d.kind, detect |-> d, asked |-> <<>>,
        parser |-> None, cursor |-> d.cursor]
  ELSE With(AskedFrom(buf, 1), LAMBDA asked :
         IF can_parse(asked[Len(asked)], buf).can
         THEN [op |-> "from_data", kind |-> "returned", detect |-> d,
               asked |-> asked,
               parser |-> Some([FORMAT |-> asked[Len(asked)],
                                encoding |-> d.value[1],
                                encoding_confidence |-> d.value[2]]),
               cursor |-> 0]
         ELSE [op |-> "from_data", kind |-> "NoParserError", detect |-> d,
               asked |-> asked, parser |-> None, cursor |-> 0])

from_data(buf, enc, lang, det) == FromDetected(buf, detect(buf, 0, enc, lang, det))

\* a call on a closed stream: its first read or seek raises ValueError
OnClosed(op) == [op |-> op, kind |-> "ValueError", cursor |-> position]

\* the call has ended as o says
Called(o) ==
  /\ calls' = Append(calls, o)
  /\ position' = o.cursor
  /\ UNCHANGED <<buffer, encoding_hint, language_hint, chardet>>
  /\ UNCHANGED <<vars, export_vars, cursor_vars, session_vars, microdvd_vars>>

\* encodings.detect(data, encoding, language), which Parser.parse and
\* Parser.from_data call on a stream they have rewound.  An exception that
\* can_decode does not catch leaves the reader attached to the stream, which
\* is closed when the reader is collected.
Detect ==
  /\ Len(calls) < MaxCalls
  /\ position = 0
  /\ IF closed
     THEN Called(OnClosed("detect")) /\ closed' = closed
     ELSE With(detect(buffer, position, encoding_hint, language_hint, chardet),
               LAMBDA o :
            /\ Called([op |-> "detect"] @@ o)
            /\ closed' \in (IF o.kind \in {"returned", "EncodingError"}
                            THEN {FALSE} ELSE BOOLEAN))

\* cls.can_parse(data) on the stream wherever it stands
CanParse ==
  /\ Len(calls) < MaxCalls
  /\ \E cls \in {Registry[i] : i \in 1..Len(Registry)} :
       IF closed
       THEN Called(OnClosed("can_parse"))
       ELSE With(can_parse(cls, buffer), LAMBDA r :
              Called([op |-> "can_parse", kind |-> "returned", cls |-> cls,
                      can |-> r.can, readline |-> r.readline,
                      lines |-> readlines(buffer, 0), before |-> position,
                      cursor |-> 0]))
  /\ closed' = closed

\* Parser.from_data(data, encoding, language) on the stream wherever it
\* stands
FromData ==
  /\ Len(calls) < MaxCalls
  /\ IF closed
     THEN Called(OnClosed("from_data")) /\ closed' = closed
     ELSE With(from_data(buffer, encoding_hint, language_hint, chardet), LAMBDA o :
            /\ Called(o)
            /\ closed' \in (IF o.kind \in {"returned", "EncodingError", "NoParserError"}
                            THEN {FALSE} ELSE BOOLEAN))

\* the hints and the answers of chardet that are passed (a confidence is
\* written in hundredths)
Hints == {None, Some("bullshit"), Some("utf-16"), Some("ISO-8859-2"),
          Some("windows-1250"), Some("GB18030")}
Languages == {None, Some("sl"), Some("ru")}
Detections == {None, Some(Candidate("utf-8", Some(99))),
               Some(Candidate("TIS-620", Some(50))),
               Some(Candidate("GB2312", Some(50)))}

\* the sequences of at most n bytes of BodyBytes
RECURSIVE Bodies(_)
Bodies(n) ==
  IF n = 0 THEN {<<>>}
  ELSE Bodies(n - 1) \cup {Append(b, x) : b \in Bodies(n - 1), x \in BodyBytes}

\* buffers for detect: a byte-order mark or none, then some bytes
EncBuffers ==
  {prefix \o body : prefix \in {<<>>, BOM_UTF8, BOM_UTF16}, body \in Bodies(MaxBody)}

\* "{1}{2}a": a line of a MicroDVD file
MicroLine == <<"{", "1", "}", "{", "2", "}", "a">>

RECURSIVE Junk(_)
Junk(k) == IF k = 0 THEN <<>> ELSE Junk(k - 1) \o <<"a", "\n">>

\* chardet.detect of ASCII bytes: ascii with confidence 1.0, and no
\* encoding when there is no byte
Ascii(buf) == IF buf = <<>> THEN None ELSE Some(Candidate("ascii", Some(100)))

\* buffers for the sniffers: lines that match no format, then one line
\* that may
DocBuffers ==
  {Junk(k) \o last : k \in 0..MaxJunk,
                     last \in {<<>>, HSpec \o <<"\n">>, HShort \o <<"\n">>,
                               MicroLine \o <<"\n">>}}

\* no document is parsed
NoDocument ==
  /\ units = <<>>
  /\ gap = 0
  /\ data = <<>>
  /\ pos = 0
  /\ stop_level = DefaultStopLevel
  /\ warnings = <<>>
  /\ errors = <<>>
  /\ _read_lines = <<>>
  /\ _current_line_num = -1
  /\ _current_line = None
  /\ aasm_state = "start"
  /\ temp = None
  /\ _parsed = None
  /\ paused = FALSE
  /\ _missing_line = FALSE
  /\ sub = <<>>
  /\ exception = "none"
  /\ raised = None
  /\ status = "running"

StreamInit ==
  /\ NoDocument
  /\ NoExport
  /\ NoCursor
  /\ NoSession
  /\ NoMicroDVD
  /\ calls = <<>>
  /\ closed = FALSE
  /\ \/ /\ buffer \in EncBuffers
        /\ position = 0
        /\ encoding_hint \in Hints
        /\ language_hint \in Languages
        /\ chardet \in Detections
     \/ /\ buffer \in DocBuffers
        /\ position \in {0, Len(buffer)}
        /\ encoding_hint \in {None, Some("bullshit")}
        /\ language_hint = None
        /\ chardet = Ascii(buffer)

StreamNext ==
  \/ Detect
  \/ CanParse
  \/ FromData

stream_all == <<vars, stream_vars>>

Stream == StreamInit /\ [][StreamNext]_stream_all

(***************************************************************************)
(* Export: conversions, methods and the calls of export.                   *)
(***************************************************************************)
\* the character U+0161, a letter that ASCII does not have
SCaron == "U0161"

\* c.encode(encoding, 'ignore') of one character
EncodeChar(c, encoding) ==
  IF c # SCaron THEN <<c>>
  ELSE IF encoding = "utf-8" THEN <<"xc5", "xa1">>
  ELSE <<>>

\* s.encode(encoding, 'ignore')
RECURSIVE encode(_, _)
encode(s, encoding) ==
  IF s = <<>> THEN <<>>
  ELSE EncodeChar(Head(s), encoding) \o encode(Tail(s), encoding)

\* sep.join(parts)
RECURSIVE join(_, _)
join(sep, parts) ==
  IF parts = <<>> THEN <<>>
  ELSE IF Len(parts) = 1 THEN parts[1]
  ELSE parts[1] \o sep \o join(sep, Tail(parts))

\* '{:0wd}'.format(n) for n >= 0
RECURSIVE Zeros(_)
Zeros(k) == IF k <= 0 THEN <<>> ELSE <<"0">> \o Zeros(k - 1)
Padded(n, w) == Zeros(w - Len(str(n))) \o str(n)

\* the times of the model, in milliseconds, for which
\* (time.seconds - seconds) * 1000 falls short of the whole number of
\* milliseconds in double arithmetic, so that int() gives one less
FloatShort == {1001, 3599999}

\* HumanTime.from_seconds(ms / 1000.0)
from_seconds(ms) ==
  [hours |-> ms \div 3600000,
   minutes |-> (ms % 3600000) \div 60000,
   seconds |-> ms % 60000]

\* SubRipExporter._convert_time of a time of ms milliseconds
_convert_time(ms) ==
  With(from_seconds(ms), LAMBDA time :
    join(<<":">>, <<Padded(time.hours, 2), Padded(time.minutes, 2),
                    Padded(time.seconds \div 1000, 2) \o <<",">>
                      \o Padded((time.seconds % 1000)
                                  - (IF ms \in FloatShort THEN 1 ELSE 0), 3)>>))

\* the lines of the unit, encoded
EncodedLines(unit, encoding) ==
  [k \in 1..Len(unit.lines) |-> encode(unit.lines[k], encoding)]

\* SubRipExporter._export_unit: the bytes it returns when the counter
\* _unit stands at counter
_export_unit(unit, counter, encoding, line_ending) ==
  join(line_ending,
       (IF counter # 0 THEN <<<<>>>> ELSE <<>>)
         \o <<str(counter + 1),
              _convert_time(unit.start) \o <<" ">> \o Arrow \o <<" ">>
                \o _convert_time(unit.end),
              join(line_ending, EncodedLines(unit, encoding)),
              <<>>>>)

\* SubRipExporter._export_metadata: the counter after it
_export_metadata(counter) == 0

\* Exporter.export up to the loop: the metadata (no bytes) is written to a
\* new output
ExportMetadata ==
  /\ phase \in {"new", "done"}
  /\ exports < MaxExports
  /\ exports' = exports + 1
  /\ _unit' = _export_metadata(_unit)
  /\ output' = <<>>
  /\ written' = 0
  /\ phase' = "units"
  /\ UNCHANGED <<subtitle, _encoding, _line_ending>>
  /\ UNCHANGED <<vars, stream_vars, cursor_vars, session_vars, microdvd_vars>>

\* one turn of the loop of Exporter.export
ExportUnit ==
  /\ phase = "units"
  /\ written < Len(subtitle)
  /\ output' = output \o _export_unit(subtitle[written + 1], _unit, _encoding,
                                      _line_ending)
  /\ _unit' = _unit + 1
  /\ written' = written + 1
  /\ UNCHANGED <<subtitle, _encoding, _line_ending, phase, exports>>
  /\ UNCHANGED <<vars, stream_vars, cursor_vars, session_vars, microdvd_vars>>

\* the end of Exporter.export: _export_end gives no bytes
ExportEnd ==
  /\ phase = "units"
  /\ written = Len(subtitle)
  /\ phase' = "done"
  /\ UNCHANGED <<subtitle, _encoding, _line_ending, _unit, output, written, exports>>
  /\ UNCHANGED <<vars, stream_vars, cursor_vars, session_vars, microdvd_vars>>

\* the times (start, end) and the texts of the units that are exported
ExportTimes == {<<1000, 2000>>, <<1001, 65000>>, <<3599999, 3665000>>}
ExportTexts == {<<>>, <<TextA>>, <<TextA, TextB>>, <<TextA, Blank>>, <<<<"a", SCaron>>>>}
ExportUnits ==
  {[start |-> t[1], end |-> t[2], lines |-> l] : t \in ExportTimes, l \in ExportTexts}

ExportInit ==
  /\ NoDocument
  /\ NoStream
  /\ NoCursor
  /\ NoSession
  /\ NoMicroDVD
  /\ subtitle \in UNION {[1..n -> ExportUnits] : n \in 0..MaxExportUnits}
  /\ _encoding \in {"utf-8", "ascii"}
  /\ _line_ending \in {<<"\n">>, <<"\r", "\n">>}
  /\ _unit = 0
  /\ output = <<>>
  /\ written = 0
  /\ phase = "new"
  /\ exports = 0

ExportNext ==
  \/ ExportMetadata
  \/ ExportUnit
  \/ ExportEnd

export_all == <<vars, stream_vars, export_vars>>

Export == ExportInit /\ [][ExportNext]_export_all

(***************************************************************************)
(* The line cursor of Parser (parsers/base.py), moved call by call over a  *)
(* document, with the rewrite of the current line that the state machine   *)
(* makes for a retry.                                                      *)
(***************************************************************************)
\* what readline() returns for a line that ends with a line end
EndedLines == {<<"a", "\n">>, <<"b", " ", "\r", "\n">>, <<"\n">>}
\* and for a last line that has none
OpenLines == {<<"c">>}

\* the documents: lines with a line end, then at most one without
CursorDocuments ==
  UNION {{d \in [1..n -> EndedLines \cup OpenLines] :
            \A k \in 1..(n - 1) : d[k] \in EndedLines} : n \in 0..MaxLines}

\* what the state machine writes over the current line
Rewrites == {<<"1">>}

\* no state machine runs
NoMachine ==
  /\ units = <<>>
  /\ gap = 0
  /\ stop_level = DefaultStopLevel
  /\ warnings = <<>>
  /\ errors = <<>>
  /\ aasm_state = "start"
  /\ temp = None
  /\ _parsed = None
  /\ paused = FALSE
  /\ _missing_line = FALSE
  /\ sub = <<>>
  /\ exception = "none"
  /\ raised = None
  /\ status = "running"

machine_vars ==
  <<units, gap, stop_level, warnings, errors, aasm_state, temp, _parsed,
    paused, _missing_line, sub, exception, raised, status>>

\* Parser._next_line()
NextLine ==
  /\ IF AtEnd(M)
     THEN /\ answer' = Some(Answer("_next_line", 0, "returned", <<>>, FALSE, ""))
          /\ UNCHANGED <<pos, _current_line_num, _current_line, _read_lines>>
     ELSE With(_next_line(M), LAMBDA m :
            /\ pos' = m.pos
            /\ _current_line_num' = m.num
            /\ _current_line' = m.line
            /\ _read_lines' = m.read
            /\ answer' = Some(Answer("_next_line", 0, "returned", <<>>, TRUE, "")))
  /\ visited' = IF pos' > visited THEN pos' ELSE visited
  /\ UNCHANGED <<data, machine_vars, stream_vars, export_vars, session_vars, microdvd_vars>>

\* Parser._fetch_line(line)
FetchLine ==
  /\ \E line \in -1..MaxLines :
       answer' = Some(Fetch(_read_lines, _current_line_num, line))
  /\ UNCHANGED <<data, pos, _current_line_num, _current_line, _read_lines>>
  /\ UNCHANGED <<visited, machine_vars, stream_vars, export_vars, session_vars, microdvd_vars>>

\* _rewind that leaves the history as it is
RewindKeepingHistory ==
  /\ _current_line_num' = -1
  /\ _current_line' = None
  /\ pos' = 0
  /\ answer' = Some(Answer("_rewind", 0, "returned", <<>>, FALSE, ""))
  /\ UNCHANGED <<data, _read_lines, visited, machine_vars, stream_vars, export_vars, session_vars, microdvd_vars>>

\* _rewind that leaves the data where it stands
RewindWithoutSeek ==
  /\ _current_line_num' = -1
  /\ _read_lines' = <<>>
  /\ _current_line' = None
  /\ answer' = Some(Answer("_rewind", 0, "returned", <<>>, FALSE, ""))
  /\ UNCHANGED <<data, pos, visited, machine_vars, stream_vars, export_vars, session_vars, microdvd_vars>>

\* Parser._rewind()
Rewind ==
  /\ _current_line_num' = -1
  /\ _read_lines' = <<>>
  /\ _current_line' = None
  /\ pos' = 0
  /\ answer' = Some(Answer("_rewind", 0, "returned", <<>>, FALSE, ""))
  /\ UNCHANGED <<data, visited, machine_vars, stream_vars, export_vars, session_vars, microdvd_vars>>

\* SubRipStateMachine.current_line = value, after a line was read
SetCurrentLine ==
  /\ _current_line # None
  /\ \E value \in Rewrites : _current_line' = Some(value)
  /\ answer' = Some(Answer("current_line", 0, "returned", <<>>, FALSE, ""))
  /\ UNCHANGED <<data, pos, _current_line_num, _read_lines>>
  /\ UNCHANGED <<visited, machine_vars, stream_vars, export_vars, session_vars, microdvd_vars>>

\* Parser.__init__ and a document as its data
CursorInit ==
  /\ NoMachine
  /\ NoStream
  /\ NoExport
  /\ NoCursor
  /\ NoSession
  /\ NoMicroDVD
  /\ data \in CursorDocuments
  /\ pos = 0
  /\ _read_lines = <<>>
  /\ _current_line_num = -1
  /\ _current_line = None

CursorNext ==
  \/ NextLine
  \/ FetchLine
  \/ Rewind
  \/ SetCurrentLine

cursor_all == <<vars, cursor_vars>>

Cursor == CursorInit /\ [][CursorNext]_cursor_all

(***************************************************************************)
(* One parser that is given documents call by call (Parser.parse,          *)
(* parsers/base.py), and the bytes of an export given to a parser.         *)
(***************************************************************************)
\* calls of Parser.parse on one parser
MaxParses == 2

\* a parser on which parse was not called yet
NewParser ==
  /\ units = <<>>
  /\ gap = 0
  /\ data = <<>>
  /\ pos = 0
  /\ warnings = <<>>
  /\ errors = <<>>
  /\ _read_lines = <<>>
  /\ _current_line_num = -1
  /\ _current_line = None
  /\ aasm_state = "start"
  /\ temp = None
  /\ _parsed = None
  /\ paused = FALSE
  /\ _missing_line = FALSE
  /\ sub = <<>>
  /\ exception = "none"
  /\ raised = None
  /\ status = "new"
  /\ parses = <<>>

\* Parser.parse(data) up to the loop over _parse, data being the lines that
\* readline() will return: data that is not empty replaces the data of the
\* parser, read from its start; the Subtitle and the state machine are new;
\* the line cursor and the diagnostics are the attributes of the parser and
\* are left as they are
Parse(lines) ==
  /\ status # "running"
  /\ Len(parses) < MaxParses
  /\ parses' = Append(parses, <<Len(warnings), Len(errors)>>)
  /\ IF lines # <<>> THEN data' = lines /\ pos' = 0
     ELSE UNCHANGED <<data, pos>>
  /\ aasm_state' = "start"
  /\ temp' = None
  /\ _parsed' = None
  /\ paused' = FALSE
  /\ _missing_line' = FALSE
  /\ sub' = <<>>
  /\ exception' = "none"
  /\ raised' = None
  /\ status' = "running"
  /\ UNCHANGED <<stop_level, warnings, errors, _read_lines, _current_line_num,
                 _current_line>>

\* the units of the documents that one parser is given: regular units and a
\* unit without a sequence number
ReuseShapes ==
  RegShapes \cup {[seq |-> FALSE, hdr |-> <<HShort>>, text |-> <<TextA>>, sep |-> 1]}

\* parse is called on a document of one unit
ParseDocument ==
  /\ \E u \in ReuseShapes :
       /\ units' = <<u>>
       /\ Parse(RawLines(<<u>>, 0))
  /\ gap' = 0
  /\ UNCHANGED <<stream_vars, export_vars, cursor_vars, microdvd_vars>>

ReuseInit ==
  /\ NewParser
  /\ stop_level \in {"None", DefaultStopLevel}
  /\ NoStream
  /\ NoExport
  /\ NoCursor
  /\ NoMicroDVD

ReuseNext ==
  \/ ParseDocument
  \/ Next

reuse_all == <<vars, session_vars>>

Reuse == ReuseInit /\ [][ReuseNext]_reuse_all

\* the character that stands for bytes that cannot be decoded
Replacement == "Ufffd"

\* bytes.decode(encoding, 'replace'): the two bytes of U+0161 in UTF-8 give
\* the character, any other byte above 127 gives the replacement character
DecodeAt(b, k, encoding) ==
  IF b[k] \notin {"xc5", "xa1"} THEN <<b[k]>>
  ELSE IF encoding # "utf-8" THEN <<Replacement>>
  ELSE IF b[k] = "xc5" /\ k < Len(b) /\ b[k + 1] = "xa1" THEN <<SCaron>>
  ELSE IF b[k] = "xa1" /\ k > 1 /\ b[k - 1] = "xc5" THEN <<>>
  ELSE <<Replacement>>

decode(b, encoding) ==
  With(SelectSeq([k \in 1..Len(b) |-> DecodeAt(b, k, encoding)],
                 LAMBDA c : c # <<>>),
       LAMBDA cs : [k \in 1..Len(cs) |-> cs[k][1]])

\* the units that are exported and parsed again: whole milliseconds, one or
\* more text lines that are not empty
RoundTripTexts == {<<TextA>>, <<TextA, TextB>>, <<<<"a", SCaron>>>>}
RoundTripUnits ==
  {[start |-> t[1], end |-> t[2], lines |-> l] :
     t \in ExportTimes, l \in RoundTripTexts}

\* parse is called with the bytes that export has written and with the
\* encoding of the exporter
ParseExported ==
  /\ phase = "done"
  /\ parses = <<>>
  /\ Parse(readlines(decode(output, _encoding), 0))
  /\ UNCHANGED <<units, gap>>
  /\ UNCHANGED <<stream_vars, export_vars, cursor_vars, microdvd_vars>>

RoundTripInit ==
  /\ NewParser
  /\ stop_level \in {"None", DefaultStopLevel}
  /\ NoStream
  /\ NoCursor
  /\ NoMicroDVD
  /\ subtitle \in UNION {[1..n -> RoundTripUnits] : n \in 0..MaxExportUnits}
  /\ _encoding \in {"utf-8", "ascii"}
  /\ _line_ending \in {<<"\n">>, <<"\r", "\n">>}
  /\ _unit = 0
  /\ output = <<>>
  /\ written = 0
  /\ phase = "new"
  /\ exports = 0

RoundTripNext ==
  \/ ExportMetadata
  \/ ExportUnit
  \/ ExportEnd
  \/ ParseExported
  \/ Next

round_trip_all == <<vars, export_vars, session_vars>>

RoundTrip == RoundTripInit /\ [][RoundTripNext]_round_trip_all

(***************************************************************************)
(* MicroDVDParser (parsers/microdvd.py): the metadata pass, the rewind and *)
(* the unit pass of Parser.parse.  A unit is its start and end frames and  *)
(* the texts of its lines; the styles that the headers give are left out.  *)
(* The description of a diagnostic is the format and what is put into it.  *)
(***************************************************************************)
\* lines of a MicroDVD document
MaxMicroLines == 3

LowerSeq == <<"a","b","c","d","e","f","g","h","i","j","k","l","m",
              "n","o","p","q","r","s","t","u","v","w","x","y","z">>
UpperSeq == <<"A","B","C","D","E","F","G","H","I","J","K","L","M",
              "N","O","P","Q","R","S","T","U","V","W","X","Y","Z">>
Lower == {LowerSeq[k] : k \in 1..26}
Upper == {UpperSeq[k] : k \in 1..26}

\* str.islower()
islower(s) ==
  /\ \E k \in 1..Len(s) : s[k] \in Lower
  /\ \A k \in 1..Len(s) : s[k] \notin Upper

\* str.lower()
lower(s) ==
  [k \in 1..Len(s) |->
     IF s[k] \in Upper THEN LowerSeq[CHOOSE n \in 1..26 : UpperSeq[n] = s[k]]
     ELSE s[k]]

\* \{[^}]+\} at position a of s: the position after it, 0 when it does not
\* match there
OneTag(s, a) ==
  IF a <= Len(s) /\ s[a] = "{"
  THEN With(FindFrom(s, <<"}">>, a + 1), LAMBDA c :
         IF c > a + 1 THEN c + 1 ELSE 0)
  ELSE 0

\* what (:?\{[^}]+\})* consumes from position i of s on: the position after it
RECURSIVE TagRun(_, _)
TagRun(s, i) ==
  With(OneTag(s, IF i <= Len(s) /\ s[i] = ":" THEN i + 1 ELSE i), LAMBDA e :
    IF e = 0 THEN i ELSE TagRun(s, e))

DEFAULT == <<"{","D","E","F","A","U","L","T","}">>

\* HEADER_RE.match(s): ^\{DEFAULT\}(?P<header>(:?\{[^}]+\})*)$
HEADER_RE(s) ==
  IF startswith(s, DEFAULT) /\ TagRun(s, Len(DEFAULT) + 1) = Len(s) + 1
  THEN [ok |-> TRUE, header |-> SubSeq(s, Len(DEFAULT) + 1, Len(s))]
  ELSE [ok |-> FALSE, header |-> <<>>]

\* FORMAT_RE.match(s) for a line without a line end:
\* ^\{(?P<start>\d+)\}\{(?P<end>\d+)\}(?P<header>(:?\{[^}]+\})*)(?P<text>.*)$
FORMAT_RE_match(s) ==
  With(Braced(s, 1), LAMBDA p :
  With(IF p = 0 THEN 0 ELSE Braced(s, p), LAMBDA q :
    IF q = 0
    THEN [ok |-> FALSE, start |-> <<>>, end |-> <<>>, header |-> <<>>, text |-> <<>>]
    ELSE With(TagRun(s, q), LAMBDA e :
           [ok |-> TRUE, start |-> SubSeq(s, 2, p - 2), end |-> SubSeq(s, p + 1, q - 2),
            header |-> SubSeq(s, q, e - 1), text |-> SubSeq(s, e, Len(s))])))

\* what follows when no exception is in flight
AndThen(m, F(_)) == IF m.exc # "none" THEN m ELSE F(m)

\* self.add_warning(self._current_line_num + 1, 1,
\*                  self._fetch_line(self._current_line_num), format.format(arg))
Warn(m, format, arg) ==
  add_warning(m, m.num + 1, 1, _fetch_line(m, m.num), <<format, arg>>)

\* the loop over v.split(",") of the font style
RECURSIVE Styles(_, _, _)
Styles(m, vs, k) ==
  IF k > Len(vs) \/ m.exc # "none" THEN m
  ELSE IF strip(vs[k]) \in {<<"b">>, <<"i">>, <<"u">>, <<"s">>}
  THEN Styles(m, vs, k + 1)
  ELSE Styles(Warn(m, "Unknown style tag {}.", strip(vs[k])), vs, k + 1)

HexDigit == Digit \cup {"a","b","c","d","e","f","A","B","C","D","E","F"}

\* re.match("^\$[0-9a-fA-F]{6}$", v)
Color(v) ==
  Len(v) = 7 /\ v[1] = "$" /\ \A k \in 2..7 : v[k] \in HexDigit

\* re.match(r"^\s*(\d+)\s*,\s*(\d+)\s*$", v)
Position(v) ==
  With(Span(v, 1, Space), LAMBDA a :
  With(Span(v, a, Digit), LAMBDA b :
  With(Span(v, b, Space), LAMBDA c :
  With(Span(v, c + 1, Space), LAMBDA d :
  With(Span(v, d, Digit), LAMBDA e :
    /\ b > a
    /\ c <= Len(v) /\ v[c] = ","
    /\ e > d
    /\ Span(v, e, Space) = Len(v) + 1)))))

\* the body of the loop of _parse_header for a tag k:v
OneHeader(m, key, value, global_only) ==
  IF global_only /\ islower(key) THEN m
  ELSE With(strip(key), LAMBDA k :
       With(strip(value), LAMBDA v :
         IF lower(k) = <<"y">> THEN Styles(m, split(v, <<",">>), 1)
         ELSE IF lower(k) \in {<<"f">>, <<"s">>} THEN m
         ELSE IF lower(k) = <<"c">>
         THEN IF Color(v) THEN m ELSE Warn(m, "Wrong color format {}.", v)
         ELSE IF k = <<"P">>
         THEN IF Position(v) THEN m ELSE Warn(m, "Malformed position {}.", v)
         ELSE IF k = <<"H">> THEN m
         ELSE Warn(m, "Unknwon header {}.", k)))

\* the loop of _parse_header over the tags: k, v = h.split(":") raises
\* ValueError for a tag that has not exactly one colon
RECURSIVE Headers(_, _, _, _)
Headers(m, tags, k, global_only) ==
  IF k > Len(tags) \/ m.exc # "none" THEN m
  ELSE With(split(tags[k], <<":">>), LAMBDA kv :
         IF Len(kv) # 2 THEN Raise(m, "ValueError")
         ELSE Headers(OneHeader(m, kv[1], kv[2], global_only), tags, k + 1,
                      global_only))

\* MicroDVDParser._parse_header: the diagnostics it records and the
\* exception it ends with
_parse_header(m, header, global_only) ==
  With(split(replace_all(header, <<"{">>, <<>>), <<"}">>), LAMBDA hs :
    Headers(m, SubSeq(hs, 1, Len(hs) - 1), 1, global_only))

\* dict.update with pairs: a key that is there keeps its place
RECURSIVE update(_, _)
update(d, pairs) ==
  IF pairs = <<>> THEN d
  ELSE update(IF \E k \in 1..Len(d) : d[k][1] = pairs[1][1]
              THEN [k \in 1..Len(d) |->
                      IF d[k][1] = pairs[1][1] THEN pairs[1] ELSE d[k]]
              ELSE Append(d, pairs[1]),
              Tail(pairs))

\* MicroDVDParser._to_header_dict: the parser after it and the pairs with a
\* lowercase key (one pair at most in the documents that are parsed, so
\* that the order of a set of pairs does not matter)
_to_header_dict(m, h) ==
  IF h = <<>> THEN [m |-> m, d |-> <<>>]
  ELSE With(SubSeq(h, 2, Len(h) - 1), LAMBDA inner :
       With(split(inner, <<"}", "{">>), LAMBDA items :
         IF \E k \in 1..Len(items) : Len(split(items[k], <<":">>)) # 2
         THEN [m |-> add_warning(m, m.num + 1, index(_fetch_line(m, m.num), inner),
                                 _fetch_line(m, m.num),
                                 <<"It looks like a line header but it's not.", <<>>>>),
               d |-> <<>>]
         ELSE [m |-> m,
               d |-> SelectSeq(
                       update(<<>>, [k \in 1..Len(items) |->
                                       With(split(items[k], <<":">>), LAMBDA kv :
                                         <<strip(kv[1]), strip(kv[2])>>)]),
                       LAMBDA kv : islower(kv[1]))]))

\* MicroDVDParser._from_header_dict
_from_header_dict(h) ==
  IF h = <<>> THEN <<>>
  ELSE <<"{">> \o join(<<"}", "{">>, [k \in 1..Len(h) |-> h[k][1] \o <<":">> \o h[k][2]])
         \o <<"}">>

\* the headers of h_inherit merged, the later over the earlier
RECURSIVE Inherited(_)
Inherited(hs) ==
  IF hs = <<>> THEN <<>>
  ELSE update(Inherited(SubSeq(hs, 1, Len(hs) - 1)), hs[Len(hs)])

\* the loop of _parse over m.group("text").split("|"), and the unit that is
\* yielded and appended to the Subtitle
RECURSIVE TextLines2(_, _, _, _, _, _)
TextLines2(m, segments, k, h_inherit, lines, frames) ==
  IF m.exc # "none" THEN m
  ELSE IF k > Len(segments)
  THEN [m EXCEPT !.sub = Append(@, [start |-> frames[1], end |-> frames[2],
                                    lines |-> lines])]
  ELSE With(segments[k], LAMBDA line :
         IF startswith(line, <<"{">>) /\ ~Contains(line, <<"}">>)
         THEN Raise(m, "ValueError")
         ELSE With(IF startswith(line, <<"{">>) THEN index(line, <<"}">>) + 1 ELSE 0,
                   LAMBDA h_i :
              With(IF h_i # 0 THEN _to_header_dict(m, SubSeq(line, 1, h_i))
                   ELSE [m |-> m, d |-> <<>>], LAMBDA r :
              With(Append(h_inherit, r.d), LAMBDA hs :
                TextLines2(
                  AndThen(r.m, LAMBDA n :
                    _parse_header(n, _from_header_dict(Inherited(hs)), FALSE)),
                  segments, k + 1, hs,
                  Append(lines, SubSeq(line, h_i + 1, Len(line))), frames)))))

\* the body of the loop of _parse for a line that is not skipped
_parse_line(m) ==
  With(FORMAT_RE_match(strip(Line(m))), LAMBDA g :
    IF ~g.ok
    THEN add_error(m, m.num + 1, 1, Line(m), <<"Could not parse line", <<>>>>)
    ELSE With(IF g.text = <<>> THEN Warn(m, "Empty unit.", <<>>) ELSE m, LAMBDA w :
         With(AndThen(w, LAMBDA n : _parse_header(n, g.header, FALSE)), LAMBDA p :
         With(IF p.exc # "none" THEN [m |-> p, d |-> <<>>]
              ELSE _to_header_dict(p, g.header), LAMBDA r :
           TextLines2(r.m, split(g.text, <<"|">>), 1, <<r.d>>, <<>>,
                      <<int(g.start), int(g.end)>>)))))

\* how a call ends that an exception leaves
Left(m) ==
  [m EXCEPT !.status =
     IF m.exc = "none" THEN @
     ELSE IF m.exc \in {"ParseWarning", "ParseError"} THEN "raised"
     ELSE "crashed"]

\* the attributes of the Parser are those of m
BecomesParser(m) ==
  /\ _current_line' = m.line
  /\ _current_line_num' = m.num
  /\ _read_lines' = m.read
  /\ pos' = m.pos
  /\ warnings' = m.warnings
  /\ errors' = m.errors
  /\ sub' = m.sub
  /\ exception' = m.exc
  /\ raised' = m.raised
  /\ status' = m.status
  /\ UNCHANGED <<units, gap, data, stop_level, aasm_state, temp, _parsed, paused,
                 _missing_line>>
  /\ UNCHANGED <<stream_vars, export_vars, cursor_vars, session_vars>>

\* Parser._rewind
_rewind(m) ==
  [m EXCEPT !.num = -1, !.read = <<>>, !.line = None, !.pos = 0]

\* one turn of the loop of _parse_metadata
ScanLine ==
  /\ status = "running"
  /\ stage = "metadata"
  /\ ~AtEnd(M)
  /\ With(_next_line(M), LAMBDA m :
     With(HEADER_RE(strip(Line(m))), LAMBDA h :
     With(IF h.ok THEN _parse_header(m, h.header, TRUE) ELSE m, LAMBDA r :
       /\ BecomesParser(Left(r))
       /\ _skip_lines' = IF h.ok /\ r.exc = "none" THEN _skip_lines \cup {m.num}
                         ELSE _skip_lines)))
  /\ UNCHANGED <<stage, examined, passed>>

\* the end of _parse_metadata: _next_line returns False and _rewind is called
ScanEnd ==
  /\ status = "running"
  /\ stage = "metadata"
  /\ AtEnd(M)
  /\ BecomesParser(_rewind(M))
  /\ stage' = "units"
  /\ UNCHANGED <<_skip_lines, examined, passed>>

\* one turn of the loop of _parse for a line in _skip_lines
SkipLine ==
  /\ status = "running"
  /\ stage = "units"
  /\ ~AtEnd(M)
  /\ With(_next_line(M), LAMBDA m :
       /\ m.num \in _skip_lines
       /\ BecomesParser(m)
       /\ passed' = Append(passed, m.num))
  /\ UNCHANGED <<_skip_lines, stage, examined>>

\* one turn of the loop of _parse for any other line, and of the loop of
\* Parser.parse when a unit is yielded
ParseLine ==
  /\ status = "running"
  /\ stage = "units"
  /\ ~AtEnd(M)
  /\ With(_next_line(M), LAMBDA m :
       /\ m.num \notin _skip_lines
       /\ BecomesParser(Left(_parse_line(m)))
       /\ examined' = Append(examined, m.num))
  /\ UNCHANGED <<_skip_lines, stage, passed>>

\* the end of _parse: _next_line returns False and Parser.parse returns
ParseEnd ==
  /\ status = "running"
  /\ stage = "units"
  /\ AtEnd(M)
  /\ BecomesParser([M EXCEPT !.status = "finished"])
  /\ UNCHANGED microdvd_vars

\* the lines of the documents, without the line end: units, a unit with a
\* tag that has no colon, a unit with headers in its text, {DEFAULT} lines
\* and lines that are neither
MicroLines ==
  { <<"{","1","}","{","2","}","a">>,
    <<"{","3","}","{","4","}">>,
    <<"{","5","}","{","6","}","{","y",":","i","}","a","|","b">>,
    <<"{","7","}","{","8","}","{","x","}","a">>,
    <<"{","9","}","{","9","}","{","}","a","|","{","y",":","q","}","b">>,
    DEFAULT \o <<"{","C",":","$","0","0","0","0","F","F","}">>,
    <<" ">> \o DEFAULT \o <<"{","Q",":","1","}"," ">>,
    <<"x">>,
    <<>> }

MicroDocuments ==
  UNION {[1..n -> {l \o <<"\n">> : l \in MicroLines}] : n \in 0..MaxMicroLines}

MicroDVDInit ==
  /\ units = <<>>
  /\ gap = 0
  /\ warnings = <<>>
  /\ errors = <<>>
  /\ aasm_state = "start"
  /\ temp = None
  /\ _parsed = None
  /\ paused = FALSE
  /\ _missing_line = FALSE
  /\ sub = <<>>
  /\ exception = "none"
  /\ raised = None
  /\ status = "running"
  /\ NoSession
  /\ data \in MicroDocuments
  /\ pos = 0
  /\ _read_lines = <<>>
  /\ _current_line_num = -1
  /\ _current_line = None
  /\ stop_level \in {"None", "warning", DefaultStopLevel}
  /\ NoStream
  /\ NoExport
  /\ NoCursor
  /\ _skip_lines = {}
  /\ stage = "metadata"
  /\ examined = <<>>
  /\ passed = <<>>

MicroDVDNext ==
  \/ ScanLine
  \/ ScanEnd
  \/ SkipLine
  \/ ParseLine
  \/ ParseEnd

microdvd_all == <<vars, microdvd_vars>>

MicroDVD == MicroDVDInit /\ [][MicroDVDNext]_microdvd_all

(***************************************************************************)
(* What the documents say.  The times a header line states are written     *)
(* down here by hand, in milliseconds, and so are the lines of each unit.  *)
(***************************************************************************)
StartMs(h) ==
  CASE h = HSpec -> 15000
    [] h \in {HShort, HGarbage, HRepeat, HTwice} -> 1000
    [] h \in {HComma, HDot} -> 1000

EndMs(h) ==
  CASE h = HSpec -> 30000
    [] h \in {HShort, HGarbage, HRepeat, HTwice} -> 2500
    [] h \in {HComma, HDot} -> 2000

\* the unit a parse is to return for a unit u of the document
UnitOf(u) ==
  [start |-> StartMs(u.hdr[1]), end |-> EndMs(u.hdr[1]), lines |-> u.text]

\* the units of the document, in its order
UnitsOf(us) == [i \in 1..Len(us) |-> UnitOf(us[i])]

\* the number of lines of the document before unit i
RECURSIVE LinesBefore(_)
LinesBefore(i) ==
  IF i = 1 THEN 0 ELSE LinesBefore(i - 1) + Len(UnitLines(units[i - 1], 1))

\* the 1-based line number of the sequence line of unit i and of its header
SequenceLine(i) == LinesBefore(i) + 1
HeaderLine(i) == LinesBefore(i) + 2

\* the recorded warnings with a given description
RECURSIVE Described(_, _)
Described(ms, description) ==
  IF ms = <<>> THEN <<>>
  ELSE IF ms[1].description = description
  THEN <<ms[1]>> \o Described(Tail(ms), description)
  ELSE Described(Tail(ms), description)

\* every unit is written as the format asks and a blank line separates
\* consecutive units; the last unit may or may not be followed by one
WellFormed ==
  /\ gap = 0
  /\ \A i \in 1..Len(units) :
       units[i] \in RegShapes /\ (i < Len(units) => units[i].sep = 1)

\* well-formed, and the last unit is followed by a blank line too
AllSeparated == WellFormed /\ units[Len(units)].sep = 1

Example ==
  /\ data = << <<"1", "\n">>, HSpec \o <<"\n">>, Hello \o <<"\n">>, <<"\n">> >>
  /\ units = << [seq |-> TRUE, hdr |-> <<HSpec>>, text |-> <<Hello>>, sep |-> 1] >>

C3_Claim ==
  status # "running" =>
    \/ status = "finished" /\ aasm_state = "finished"
    \/ status = "raised" /\ raised # None
         /\ exception \in {"ParseWarning", "ParseError"}

(***************************************************************************)
(* C4                                                                      *)
(***************************************************************************)
\* a is the beginning of b
IsPrefix(a, b) == Len(a) <= Len(b) /\ SubSeq(b, 1, Len(a)) = a

\* The parse that has ended, against o: the parse of the same data by a
\* parser with no stop level, which records every diagnostic.  What is
\* recorded is the beginning of what o records; what is raised is the next
\* diagnostic of its level that o records; a parse that returns has seen
\* all that o has.
Fate(o) ==
  /\ IsPrefix(warnings, o.warnings)
  /\ IsPrefix(errors, o.errors)
  /\ exception = "ParseWarning" =>
       /\ status = "raised" /\ stop_level = "warning"
       /\ Len(o.warnings) > Len(warnings)
       /\ raised = Some(o.warnings[Len(warnings) + 1])
  /\ exception = "ParseError" =>
       /\ status = "raised" /\ stop_level \in {"warning", "error"}
       /\ Len(o.errors) > Len(errors)
       /\ raised = Some(o.errors[Len(errors) + 1])
  /\ status = "raised" => exception \in {"ParseWarning", "ParseError"}
  /\ status \in {"finished", "crashed"} =>
       /\ o.status = status
       /\ warnings = o.warnings
       /\ errors = o.errors
       /\ sub = o.sub

\* C4: with stop level 'warning' nothing is ever recorded: the first
\* warning or error is raised; with stop level 'error' no error is ever
\* recorded and no warning raised: warnings are recorded, the parse goes on
\* and the first error is raised as ParseError; with no stop level nothing
\* is raised and every diagnostic is recorded (Fate: the diagnostics are
\* those of the parse with no stop level, in its order).
C4_Theorem ==
  /\ stop_level = "warning" => warnings = <<>> /\ errors = <<>>
  /\ stop_level = "error" => errors = <<>> /\ exception # "ParseWarning"
  /\ stop_level = "None" =>
       raised = None /\ exception \notin {"ParseWarning", "ParseError"}
  /\ status # "running" => Fate(parse(__init__("None")))

\* with stop level 'error' two warnings were recorded, the parse went on and
\* the first error was raised
C4_Witness ==
  /\ stop_level = "error"
  /\ Len(warnings) = 2
  /\ errors = <<>>
  /\ status = "raised"
  /\ exception = "ParseError"
  /\ raised # None

(***************************************************************************)
(* C5                                                                      *)
(***************************************************************************)
\* C5 as it is claimed: a parser constructed without a stop level records
\* its errors and goes on, so that no ParseError leaves its parse.
C5_Original == stop_level = DefaultStopLevel => exception # "ParseError"

\* the parse that has ended with the default stop level, against o, the
\* parse of the same data with no stop level
DefaultFate(o) ==
  /\ o.errors # <<>> =>
       /\ status = "raised"
       /\ exception = "ParseError"
       /\ raised = Some(o.errors[1])
  /\ o.errors = <<>> => status = o.status /\ sub = o.sub

\* C5 amended: a parser constructed without a stop level has stop level
\* 'error': it never records an error, its parse raises the first error as
\* ParseError.  Only with stop level None is an error recorded in `errors`;
\* the parse then goes on to the end of the input and raises no diagnostic.
C5_Theorem ==
  /\ stop_level = DefaultStopLevel =>
       /\ errors = <<>>
       /\ status # "running" => DefaultFate(parse(__init__("None")))
  /\ stop_level = "None" =>
       /\ raised = None
       /\ exception \notin {"ParseWarning", "ParseError"}
       /\ status = "finished" => pos = Len(data)

\* the parse with the default stop level has raised its first error
C5_Witness ==
  /\ stop_level = DefaultStopLevel
  /\ status = "raised"
  /\ exception = "ParseError"
  /\ raised # None
  /\ raised[1].description = "Could not parse timings."
  /\ errors = <<>>

(***************************************************************************)
(* C6                                                                      *)
(***************************************************************************)
\* C6: when the sequence numbers of otherwise well-formed units are
\* consecutive except for one value left out before unit gap >= 2 (such as
\* 1,2,4,5), a parse that does not stop at warnings returns all the units
\* and has recorded exactly one 'Sequence number out of sync' warning, on
\* the sequence line of the first unit after the gap.
C6_Claim ==
  (gap >= 2 /\ stop_level # "warning" /\ status = "finished") =>
    /\ sub = UnitsOf(units)
    /\ Described(warnings, "Sequence number out of sync") =
         << [line_number |-> SequenceLine(gap), col |-> 1,
             line |-> str(Number(gap, gap)),
             description |-> "Sequence number out of sync"] >>

(***************************************************************************)
(* C7                                                                      *)
(***************************************************************************)
\* a unit whose timing line is written with dots, and the same with commas
DotShape == [seq |-> TRUE, hdr |-> <<HDot>>, text |-> <<TextA>>, sep |-> 1]
CommaShape == [seq |-> TRUE, hdr |-> <<HComma>>, text |-> <<TextA>>, sep |-> 1]

\* every unit is regular or written with dots, and followed by a blank line
DotDoc ==
  /\ gap = 0
  /\ \A i \in 1..Len(units) : units[i] \in SepShapes \cup {DotShape, CommaShape}

\* the units of the document that are written with dots
DotUnits == {i \in 1..Len(units) : units[i] = DotShape}

\* the warnings recorded for line n
WarningsAt(n) == SelectSeq(warnings, LAMBDA w : w.line_number = n)

DotWarning(n, column) ==
  [line_number |-> n, col |-> column, line |-> HDot,
   description |-> "Used dot as decimal separator instead of comma."]

C7_Result ==
  (DotDoc /\ status = "finished") =>
    /\ sub = UnitsOf(units)
    /\ errors = <<>>
    /\ _read_lines = data
    /\ \A i \in DotUnits :
         WarningsAt(HeaderLine(i)) =
           <<DotWarning(HeaderLine(i), 9), DotWarning(HeaderLine(i), 26)>>

\* a turn that starts paused reads no line
C7_Retry ==
  (DotDoc /\ paused) =>
    /\ pos' = pos
    /\ _read_lines' = _read_lines
    /\ _current_line_num' = _current_line_num

MissingLine == "Missing empty line after unit."

\* the input ends while the machine is in Unit or UnitText: the turn of done()
EndsInUnit ==
  Iterating /\ NoLine(M) /\ aasm_state \in {"unit", "unit_text"}

\* the turn after it, when the warning was recorded
AfterEndInUnit ==
  status = "running" /\ aasm_state = "finished" /\ _missing_line

\* the unit p has its timing
Timed(p) == {"start", "end"} \subseteq DOMAIN p[1].data

\* C8 as it is claimed: when the input has ended in Unit or UnitText the
\* unit in progress is emitted as it is, and exactly one warning is recorded.
C8_Original ==
  [][AfterEndInUnit =>
       /\ sub' = Append(sub, _parsed[1].data)
       /\ Len(Described(warnings', MissingLine)) = 1]_vars

\* the warning of final_unit
MissingWarning ==
  [line_number |-> _current_line_num + 1, col |-> Len(_current_line[1]),
   line |-> rstrip(_read_lines[_current_line_num + 1]),
   description |-> MissingLine]

\* the error of Parser.parse
WronglyParsed ==
  [line_number |-> _current_line_num + 1, col |-> 1, line |-> _current_line[1],
   description |-> "Wrongly parsed unit, might be a result of a previous error."]

\* the turn of done(): the warning is raised under stop level 'warning' and
\* recorded otherwise, and the unit in progress is handed over; it has its
\* timing exactly when the machine is in UnitText
C8_End ==
  EndsInUnit =>
    IF stop_level = "warning"
    THEN /\ status' = "raised"
         /\ exception' = "ParseWarning"
         /\ raised' = Some(MissingWarning)
         /\ warnings' = warnings
         /\ sub' = sub
    ELSE /\ warnings' = Append(warnings, MissingWarning)
         /\ status' = "running"
         /\ aasm_state' = "finished"
         /\ temp # None
         /\ _parsed' = temp
         /\ Timed(temp) <=> aasm_state = "unit_text"

\* the turn after it: the unit is emitted as it is when it has its timing;
\* without timing it is not emitted and an error is recorded or raised
C8_Emit ==
  AfterEndInUnit =>
    /\ warnings' = warnings
    /\ IF Timed(_parsed)
       THEN /\ sub' = Append(sub, _parsed[1].data)
            /\ errors' = errors
            /\ status' = "finished"
       ELSE /\ sub' = sub
            /\ IF stop_level = "None"
               THEN errors' = Append(errors, WronglyParsed) /\ status' = "finished"
               ELSE /\ raised' = Some(WronglyParsed)
                    /\ exception' = "ParseError"
                    /\ status' = "raised"

\* C8 amended: when the input ends while the machine is in UnitText, the
\* last unit is still emitted with its text lines unchanged; when it ends in
\* Unit (a sequence number without its timing line) the unit is not emitted
\* and a 'Wrongly parsed unit' error is recorded or raised instead.  In both
\* cases exactly one 'Missing empty line after unit.' warning is recorded,
\* unless the stop level is 'warning', under which it is raised.
C8_Theorem ==
  /\ [][C8_End]_vars
  /\ [][C8_Emit]_vars
  /\ [](Len(Described(warnings, MissingLine)) <= 1)
  /\ []((status = "finished" /\ _missing_line) =>
          Len(Described(warnings, MissingLine)) = 1)

\* the input ended in UnitText: the last unit was emitted and the warning
\* recorded
C8_Witness ==
  /\ status = "finished"
  /\ _missing_line
  /\ sub # <<>>
  /\ sub[Len(sub)] = UnitOf(units[Len(units)])
  /\ Described(warnings, MissingLine) # <<>>
  /\ errors = <<>>

(***************************************************************************)
(* C9                                                                      *)
(***************************************************************************)
\* regular units, the last one followed by a blank line, and at least one
\* other followed directly by the sequence line of the next unit
Joined ==
  /\ gap = 0
  /\ \A i \in 1..Len(units) : units[i] \in RegShapes
  /\ units[Len(units)].sep = 1
  /\ \E i \in 1..(Len(units) - 1) : units[i].sep = 0

\* C9: when the text of a unit is followed directly by the sequence line of
\* the next unit, a parse that does not stop at warnings records a 'missing
\* empty line' warning and emits every unit separately, with its own
\* timings and text.
C9_Claim ==
  (Joined /\ stop_level # "warning" /\ status = "finished") =>
    /\ sub = UnitsOf(units)
    /\ Described(warnings, MissingLine) # <<>>

(***************************************************************************)
(* C10                                                                     *)
(***************************************************************************)
\* a line that matches the header pattern is read in Start
HeaderInStart ==
  /\ Iterating
  /\ ~NoLine(M)
  /\ aasm_state = "start"
  /\ EventOf(Advance(M)) = "found_header"

NoSequence ==
  [line_number |-> pos + 1, col |-> 1, line |-> rstrip(data[pos + 1]),
   description |-> "New unit starts without a sequence."]

\* C10: when a timing-header line is read in Start, a new unit is opened
\* whose sequence number is the last known one plus 1 (1 when there is
\* none) and whose start and end are those of the header, the machine is in
\* UnitText afterwards and one 'New unit starts without a sequence.'
\* warning is recorded (raised, under stop level 'warning').
C10_Claim ==
  [][HeaderInStart =>
       /\ aasm_state' = "unit_text"
       /\ temp' # None
       /\ temp'[1].sequence = PreviousSeq(M) + 1
       /\ Timed(temp')
       /\ temp'[1].data.start = StartMs(rstrip(data[pos + 1]))
       /\ temp'[1].data.end = EndMs(rstrip(data[pos + 1]))
       /\ IF stop_level = "warning"
          THEN raised' = Some(NoSequence)
          ELSE warnings' = Append(warnings, NoSequence)]_vars

(***************************************************************************)
(* C11                                                                     *)
(***************************************************************************)
CouldNotParse == "Could not parse timings."

\* unit i is written with a timing line of the header shape whose times are
\* no timecodes, and every other unit of the document is regular and
\* followed by a blank line
BadTiming(i) ==
  /\ gap = 0
  /\ units[i].seq
  /\ units[i].hdr = <<HBad>>
  /\ \A j \in 1..Len(units) : j # i => units[j] \in SepShapes

\* the units of the document other than unit i, in its order
RECURSIVE Others(_, _)
Others(us, i) ==
  IF us = <<>> THEN <<>>
  ELSE IF Len(us) = i THEN Others(SubSeq(us, 1, Len(us) - 1), i)
  ELSE Append(Others(SubSeq(us, 1, Len(us) - 1), i), UnitOf(us[Len(us)]))

\* C11: a timing line of the header shape whose start or end is no timecode
\* records a 'Could not parse timings.' error and aborts the unit in
\* progress: that unit never takes a timing or a text line of a later line
\* and is not emitted, and with no stop level the later well-formed units
\* are emitted.
C11_Claim ==
  \A i \in 1..Len(units) :
    BadTiming(i) =>
      /\ (temp # None /\ temp[1].sequence = i) =>
           ~Timed(temp) /\ temp[1].data.lines = <<>>
      /\ (stop_level = "None" /\ status = "finished") =>
           /\ Described(errors, CouldNotParse) # <<>>
           /\ sub = Others(units, i)

(***************************************************************************)
(* C12                                                                     *)
(***************************************************************************)
\* every diagnostic of the list has a line number and a column from 1 on
Positioned(ms) ==
  \A k \in 1..Len(ms) : ms[k].line_number >= 1 /\ ms[k].col >= 1

\* C12: every recorded diagnostic has line number >= 1 and column >= 1, and
\* the warnings and errors lists are append-only: every step of the parser
\* leaves each list an extension of what it was, no entry changed or removed.
C12_Claim ==
  /\ [](Positioned(warnings) /\ Positioned(errors))
  /\ [][IsPrefix(warnings, warnings') /\ IsPrefix(errors, errors')]_vars

(***************************************************************************)
(* C13                                                                     *)
(***************************************************************************)
\* the calls of detect that have ended: those made directly and those
\* Parser.from_data made
Detected ==
  {calls[k] : k \in {i \in 1..Len(calls) : calls[i].op = "detect"}}
  \cup {calls[k].detect :
          k \in {i \in 1..Len(calls) :
                   calls[i].op = "from_data" /\ calls[i].kind # "ValueError"}}

\* C13: when the buffer starts with a UTF-8 byte-order mark, detect returns
\* the UTF-8 encoding ('utf-8-sig') with confidence None, whatever encoding
\* hint and language hint are passed, and has tried no candidate.
C13_Theorem ==
  startswith(buffer, BOM_UTF8) =>
    \A o \in Detected :
      /\ o.kind = "returned"
      /\ o.value = <<"utf-8-sig", None>>
      /\ o.attempted = <<>>
      /\ o.cursor = 0

\* detect was called twice on a buffer with the mark and bytes that are no
\* UTF-8, with both hints and an answer of chardet
C13_Witness ==
  /\ startswith(buffer, BOM_UTF8)
  /\ Holds(buffer, "x9e")
  /\ encoding_hint = Some("ISO-8859-2")
  /\ language_hint = Some("ru")
  /\ chardet # None
  /\ Len(calls) = 2
  /\ \A k \in 1..2 : calls[k].op = "detect" /\ calls[k].kind = "returned"

(***************************************************************************)
(* C14                                                                     *)
(***************************************************************************)
\* the buffer starts with no byte-order mark
NoMark == ~startswith(buffer, BOM_UTF8) /\ ~startswith(buffer, BOM_UTF16)

\* the candidates by priority: the encoding hint, the encodings the
\* language hint implies, the encoding chardet detected
Listed ==
  With(Gathered(encoding_hint, language_hint, chardet), LAMBDA q :
    [k \in 1..Len(q) |-> q[k].name])

\* the trial decoding of the buffer in the encoding succeeds
Decodes(name) == can_decode(buffer, name).proper

\* the trial decoding ends the search: it succeeds or raises what
\* can_decode does not catch
Stops(name) == Decodes(name) \/ can_decode(buffer, name).exc # "none"

\* every candidate followed by the encodings similar to it that are not
\* among those rejected before it
RECURSIVE ExpandedAfter(_, _)
ExpandedAfter(q, rejected) ==
  IF q = <<>> THEN <<>>
  ELSE With(list(similar_encodings(q[1]) \ (rejected \cup {q[1]})), LAMBDA new :
         <<q[1]>> \o new
           \o ExpandedAfter(Tail(q), rejected \cup {q[1]}
                                       \cup {new[k] : k \in 1..Len(new)}))

Expanded(q) == ExpandedAfter(q, {})

\* the names of q up to the first that ends the search
RECURSIVE UpToFirst(_)
UpToFirst(q) ==
  IF q = <<>> THEN <<>>
  ELSE IF Stops(q[1]) THEN <<q[1]>>
  ELSE <<q[1]>> \o UpToFirst(Tail(q))

\* C14 as it is claimed: without a mark, what detect returns is the first
\* of the candidates (hint, language, detected) whose trial decoding
\* succeeds.
C14_Original ==
  NoMark =>
    \A o \in Detected :
      o.kind = "returned" =>
        \E k \in 1..Len(Listed) :
          /\ Listed[k] = o.value[1]
          /\ Decodes(Listed[k])
          /\ \A i \in 1..(k - 1) : ~Decodes(Listed[i])

\* C14 amended: without a mark, detect tries the encoding hint, then the
\* encodings the language hint implies, then the detected encoding, and
\* right after a candidate that is rejected the encodings similar to it
\* that have not been rejected yet, before the remaining candidates; what it
\* returns is the first encoding in this order whose trial decoding
\* succeeds (with the confidence of chardet if it is the detected one, None
\* otherwise), and every encoding tried before it was rejected.
C14_Theorem ==
  NoMark =>
    \A o \in Detected :
      o.kind # "ValueError" =>
        /\ o.attempted = UpToFirst(Expanded(Listed))
        /\ \A i \in 1..(Len(o.attempted) - 1) : ~Decodes(o.attempted[i])
        /\ o.kind = "returned" =>
             /\ o.attempted # <<>>
             /\ o.value[1] = o.attempted[Len(o.attempted)]
             /\ Decodes(o.value[1])
             /\ o.value[2] # None =>
                  chardet # None /\ chardet[1] = Candidate(o.value[1], o.value[2])

\* the hint was rejected and the encoding similar to it was returned, with
\* a language hint whose encoding would have decoded
C14_Witness ==
  /\ NoMark
  /\ encoding_hint = Some("ISO-8859-2")
  /\ language_hint = Some("ru")
  /\ Decodes("koi8-r")
  /\ \E o \in Detected :
       /\ o.kind = "returned"
       /\ o.value = <<"windows-1250", None>>
       /\ o.attempted = <<"ISO-8859-2", "windows-1250">>

(***************************************************************************)
(* C15                                                                     *)
(***************************************************************************)
Range(q) == {q[k] : k \in 1..Len(q)}

\* C15: when every candidate, the injected similar encodings included, is
\* rejected, detect raises EncodingError, and its tried_encodings holds
\* exactly the encodings that were tried and rejected, each once.
C15_Theorem ==
  NoMark =>
    \A o \in Detected :
      o.kind # "ValueError" =>
        /\ (\A i \in 1..Len(o.attempted) : ~Stops(o.attempted[i]))
             <=> o.kind = "EncodingError"
        /\ o.kind = "EncodingError" =>
             /\ Range(o.tried_encodings) = Range(o.attempted)
             /\ Len(o.tried_encodings) = Cardinality(Range(o.attempted))
             /\ \A name \in Range(Expanded(Listed)) : name \in Range(o.tried_encodings)
             /\ o.cursor = 0

\* the hint, the detected encoding and the encoding similar to it were all
\* rejected
C15_Witness ==
  /\ encoding_hint = Some("bullshit")
  /\ chardet = Some(Candidate("GB2312", Some(50)))
  /\ \E o \in Detected :
       /\ o.kind = "EncodingError"
       /\ o.attempted = <<"bullshit", "GB2312", "GB18030">>
       /\ Range(o.tried_encodings) = {"bullshit", "GB2312", "GB18030"}
       /\ Len(o.tried_encodings) = 3


(***************************************************************************)
(* C16                                                                     *)
(***************************************************************************)
\* the encoding hint is a name Python has no codec for
UnknownHint == encoding_hint # None /\ encoding_hint[1] \notin Codecs

\* C16: an encoding hint that is no known encoding name is tried first and
\* is a rejected candidate: no LookupError leaves detect, which goes on
\* with the remaining candidates, returns the first of them that decodes,
\* and else raises EncodingError with the hint among tried_encodings.
C16_Theorem ==
  (NoMark /\ UnknownHint) =>
    \A o \in Detected :
      /\ o.kind \in {"returned", "EncodingError"}
      /\ o.attempted = <<encoding_hint[1]>> \o UpToFirst(Expanded(Tail(Listed)))
      /\ o.kind = "returned" <=> \E name \in Range(Expanded(Tail(Listed))) : Decodes(name)
      /\ o.kind = "returned" =>
           /\ o.value[1] # encoding_hint[1]
           /\ Decodes(o.value[1])
      /\ o.kind = "EncodingError" => encoding_hint[1] \in Range(o.tried_encodings)

\* the unknown hint was tried and rejected, the detected encoding was
\* returned after it, and from_data returned a parser
C16_Witness ==
  /\ NoMark
  /\ encoding_hint = Some("bullshit")
  /\ \E k \in 1..Len(calls) :
       /\ calls[k].op = "from_data"
       /\ calls[k].kind = "returned"
       /\ calls[k].detect.attempted = <<"bullshit", "ascii">>
       /\ calls[k].detect.value = <<"ascii", Some(100)>>


(***************************************************************************)
(* C17                                                                     *)
(***************************************************************************)
\* the calls of detect on the stream, in order
DetectCalls == SelectSeq(calls, LAMBDA o : o.op = "detect")

\* C17: detect called twice on the same buffer with the same hints ends the
\* same way both times, with the same (encoding, confidence) or the same
\* EncodingError, and every call of detect, however it ends, leaves the
\* buffer at position 0 with its content as it was.
C17_Claim ==
  /\ \A k \in 1..Len(DetectCalls) :
       /\ DetectCalls[k].kind \in {"returned", "EncodingError"}
       /\ DetectCalls[k].cursor = 0
       /\ DetectCalls[k] = DetectCalls[1]
  /\ DetectCalls # <<>> => ~closed /\ position = 0


(***************************************************************************)
(* C18                                                                     *)
(***************************************************************************)
\* the calls of Parser.from_data that got to read the stream
FromDataCalls ==
  {calls[k] : k \in {i \in 1..Len(calls) :
                       calls[i].op = "from_data" /\ calls[i].kind # "ValueError"}}

\* the class accepts the buffer: one of its first ten lines matches
Accepts(cls) == \E k \in 1..Min(SniffLines, Len(readlines(buffer, 0))) :
                  FORMAT_RE(cls, readlines(buffer, 0)[k])

\* C18 as it is claimed: from_data returns an instance of the first
\* registered class that accepts the data, and raises NoParserError when no
\* registered class accepts the data.
C18_Original ==
  \A o \in FromDataCalls :
    /\ (\E i \in 1..Len(Registry) : Accepts(Registry[i]))
         => o.kind = "returned"
    /\ (\A i \in 1..Len(Registry) : ~Accepts(Registry[i]))
         => o.kind = "NoParserError"

\* C18 amended: from_data detects the encoding first, and an exception of
\* detect leaves from_data before any class is asked.  When detect returns,
\* from_data asks the registered classes in turn, SubRip before MicroDVD,
\* and returns an instance of the first whose can_parse accepts the data,
\* with the encoding and the confidence detect returned; when no registered
\* class accepts the data it raises NoParserError.
C18_Theorem ==
  \A o \in FromDataCalls :
    /\ o.detect.kind # "returned" =>
         /\ o.kind = o.detect.kind
         /\ o.asked = <<>>
         /\ o.parser = None
    /\ o.detect.kind = "returned" =>
         /\ o.asked # <<>>
         /\ o.asked = SubSeq(Registry, 1, Len(o.asked))
         /\ \A i \in 1..(Len(o.asked) - 1) : ~Accepts(o.asked[i])
         /\ IF \E i \in 1..Len(Registry) : Accepts(Registry[i])
            THEN /\ o.kind = "returned"
                 /\ Accepts(o.asked[Len(o.asked)])
                 /\ o.parser = Some([FORMAT |-> o.asked[Len(o.asked)],
                                     encoding |-> o.detect.value[1],
                                     encoding_confidence |-> o.detect.value[2]])
            ELSE /\ o.kind = "NoParserError"
                 /\ o.asked = Registry
                 /\ o.parser = None
         /\ o.cursor = 0

\* a MicroDVD file was given: SubRip was asked and did not accept it, and a
\* MicroDVD parser was returned
C18_Witness ==
  /\ Accepts("MicroDVD")
  /\ ~Accepts("SubRip")
  /\ \E o \in FromDataCalls :
       /\ o.kind = "returned"
       /\ o.asked = <<"SubRip", "MicroDVD">>
       /\ o.parser[1].FORMAT = "MicroDVD"

\* no class accepts the data: NoParserError
C18_WitnessNone ==
  /\ buffer # <<>>
  /\ \E o \in FromDataCalls : o.kind = "NoParserError" /\ o.asked = Registry


(***************************************************************************)
(* C19                                                                     *)
(***************************************************************************)
\* the bytes of the document
RECURSIVE Flat(_)
Flat(lines) == IF lines = <<>> THEN <<>> ELSE Head(lines) \o Flat(Tail(lines))

\* no registered class accepts the document: Parser.from_data, once the
\* encoding is detected, raises NoParserError
Unrecognised ==
  /\ \A i \in 1..Len(Registry) : ~can_parse(Registry[i], Flat(data)).can
  /\ FromDetected(Flat(data), Outcome("returned", <<"ascii", Some(100)>>, "", <<>>,
                                      <<"ascii">>, 0)).kind = "NoParserError"

\* C19: from_format gives the parser whose FORMAT is the name exactly
\* (NoParserError when there is none) and calls no sniffer: the parse, by
\* the SubRip parser from_format gave, of a document that no can_parse
\* accepts ends with a Subtitle returned, while from_data raises
\* NoParserError for the same document.
C19_Claim ==
  /\ from_format("SubRip") = Some("SubRip")
  /\ from_format("MicroDVD") = Some("MicroDVD")
  /\ from_format("subrip") = None
  /\ (stop_level = "None" /\ status # "running" /\ Unrecognised)
       => status = "finished"


(***************************************************************************)
(* C20                                                                     *)
(***************************************************************************)
\* the calls of can_parse that got to read the stream
CanParseCalls ==
  {calls[k] : k \in {i \in 1..Len(calls) :
                       calls[i].op = "can_parse" /\ calls[i].kind = "returned"}}

\* the numbers of the lines, among the first ten of the buffer, that match
\* the pattern of the class
Matching(cls) ==
  {k \in 1..Min(SniffLines, Len(readlines(buffer, 0))) :
     FORMAT_RE(cls, readlines(buffer, 0)[k])}

\* what C20 says of the lines that are read and of the answer: readline is
\* called ten times at most, up to the first line that matches, which makes
\* the answer true; the answer is false when none of the first ten matches
Sniffed(o) ==
  /\ o.readline <= SniffLines
  /\ o.can <=> Matching(o.cls) # {}
  /\ o.can => o.readline \in Matching(o.cls)
  /\ o.can => \A k \in Matching(o.cls) : o.readline <= k
  /\ ~o.can => o.readline = SniffLines

\* C20 as it is claimed: can_parse reads at most the first 10 lines, is
\* true as soon as one matches and false when none of them does, and
\* leaves the stream at the position it found it at.
C20_Original ==
  \A o \in CanParseCalls : Sniffed(o) /\ o.cursor = o.before

\* C20 amended: can_parse reads at most the first 10 lines of the data, from
\* its start wherever the stream stood, is true as soon as one matches and
\* false when none of them does, and leaves the stream at position 0,
\* whatever the outcome.
C20_Theorem ==
  \A o \in CanParseCalls : Sniffed(o) /\ o.cursor = 0

\* the stream stood at its end, the tenth line is the first that matches:
\* can_parse was true after ten lines and left the stream at 0; and it was
\* false for the other class
C20_Witness ==
  /\ buffer = Junk(9) \o HSpec \o <<"\n">>
  /\ Len(calls) = 2
  /\ calls[1] \in CanParseCalls
  /\ calls[1].cls = "SubRip"
  /\ calls[1].before = Len(buffer)
  /\ calls[1].can
  /\ calls[1].readline = SniffLines
  /\ calls[1].cursor = 0
  /\ calls[2] \in CanParseCalls
  /\ calls[2].cls = "MicroDVD"
  /\ ~calls[2].can


(***************************************************************************)
(* C21                                                                     *)
(***************************************************************************)
\* the bytes are a timecode HH:MM:SS,mmm
IsTimecode(s) ==
  /\ Len(s) = 12
  /\ \A k \in {1, 2, 4, 5, 7, 8, 10, 11, 12} : s[k] \in Digit
  /\ s[3] = ":" /\ s[6] = ":" /\ s[9] = ","

\* the timing line of a unit as the exporter writes it
TimingLine(unit) ==
  _convert_time(unit.start) \o <<" ">> \o Arrow \o <<" ">> \o _convert_time(unit.end)

\* every line of the sequence, each followed by the line ending
RECURSIVE Ended(_, _)
Ended(lines, le) ==
  IF lines = <<>> THEN <<>> ELSE Head(lines) \o le \o Ended(Tail(lines), le)

\* what C21 says is written for the first n units: for unit i its number
\* i, its timing line and its text lines, with one empty line before every
\* unit but the first
RECURSIVE Layout(_)
Layout(n) ==
  IF n = 0 THEN <<>>
  ELSE Layout(n - 1)
         \o (IF n > 1 THEN _line_ending ELSE <<>>)
         \o Ended(<<str(n), TimingLine(subtitle[n])>>
                    \o EncodedLines(subtitle[n], _encoding), _line_ending)

\* C21: export writes, for the i-th unit, the number i, the timing line
\* HH:MM:SS,mmm --> HH:MM:SS,mmm and the text lines of the unit in order,
\* with exactly one empty line between two units and nothing after the
\* text of the last; the numbers start at 1 in every call of export.
C21_Claim ==
  /\ phase # "new" => output = Layout(written)
  /\ \A i \in 1..Len(subtitle) :
       IsTimecode(_convert_time(subtitle[i].start))
         /\ IsTimecode(_convert_time(subtitle[i].end))


(***************************************************************************)
(* C22                                                                     *)
(***************************************************************************)
\* the unit in progress after the turn is the unit in progress before it,
\* with the times and the text it has got in the turn
Continues(old, new) ==
  /\ IsPrefix(old.data.lines, new.data.lines)
  /\ \A f \in DOMAIN old.data \ {"lines"} :
       f \in DOMAIN new.data /\ (f \in {"start", "end"} => new.data[f] = old.data[f])

\* C22: a unit that is opened has the sequence number of the unit opened
\* before it plus 1, and 1 when it is the first, whether a sequence line, a
\* sequence line out of sync or a header without sequence opens it: in
\* every turn the unit in progress is continued or gives way to the unit
\* with the next number.
C22_Theorem ==
  [][temp' # None =>
       IF temp = None
       THEN temp'[1].sequence = 1
       ELSE \/ temp'[1].sequence = temp[1].sequence + 1
            \/ temp'[1].sequence = temp[1].sequence /\ Continues(temp[1], temp'[1])]_vars

\* a number was left out before this sequence line: the unit that the line
\* opened has the number that was left out, under a warning
C22_Witness ==
  /\ gap > 1
  /\ temp # None
  /\ temp[1].sequence = gap
  /\ aasm_state = "unit"
  /\ \E k \in 1..Len(warnings) : warnings[k].description = "Sequence number out of sync"


(***************************************************************************)
(* C23                                                                     *)
(***************************************************************************)
\* C23: no unit that is handed to the caller ends with an empty line of
\* text (one that was appended for a blank line of the input), however
\* many blank lines follow the unit.
C23_Claim ==
  \A i \in 1..Len(sub) :
    sub[i].lines = <<>> \/ sub[i].lines[Len(sub[i].lines)] # <<>>


(***************************************************************************)
(* C24                                                                     *)
(***************************************************************************)
\* a blank line is read while the machine is in the given state
BlankRead(state) ==
  /\ Iterating
  /\ ~NoLine(M)
  /\ aasm_state = state
  /\ EventOf(Advance(M)) = "found_empty"

EmptyInUnit ==
  [line_number |-> pos + 1, col |-> 1, line |-> rstrip(data[pos + 1]),
   description |-> "Have empty line between sequence number and timings."]

\* C24 as it is claimed: a blank line read in Unit or in UnitText moves the
\* machine to Start and ends the unit in progress, which gets nothing more
\* in the turn.
C24_Original ==
  [][(BlankRead("unit") \/ BlankRead("unit_text")) =>
       aasm_state' = "start" /\ temp' = temp]_vars

\* C24 amended: a blank line read in UnitText moves the machine to Start
\* and leaves the unit in progress as it is, with no diagnostic; a blank
\* line read in Unit leaves the machine in Unit and the unit in progress
\* as it is, waiting for its header, and one 'Have empty line between
\* sequence number and timings.' warning is recorded for the line (raised,
\* under stop level 'warning').
C24_Theorem ==
  [][/\ BlankRead("unit_text") =>
          /\ aasm_state' = "start"
          /\ temp' = temp
          /\ warnings' = warnings
          /\ errors' = errors
          /\ raised' = None
     /\ BlankRead("unit") =>
          /\ aasm_state' = "unit"
          /\ temp' = temp
          /\ errors' = errors
          /\ IF stop_level = "warning"
             THEN raised' = Some(EmptyInUnit) /\ warnings' = warnings
             ELSE warnings' = Append(warnings, EmptyInUnit) /\ raised' = None]_vars

\* the blank line after the text of unit 1 was read in UnitText, and a
\* blank line after the sequence line of unit 2 was read in Unit: the
\* machine is in Unit with unit 2 in progress
C24_Witness ==
  /\ aasm_state = "unit"
  /\ status = "running"
  /\ temp # None
  /\ temp[1].sequence = 2
  /\ Len(sub) = 1
  /\ _current_line = Some(<<>>)
  /\ \E k \in 1..Len(warnings) : warnings[k].description = EmptyInUnit.description


(***************************************************************************)
(* C25                                                                     *)
(***************************************************************************)
\* the event of the turn: done at the end of the input, else the event of
\* the line the turn goes on with
Event == IF NoLine(M) THEN "done" ELSE EventOf(Advance(M))

\* the transitions the claim lists: from, event, to
Transitions ==
  {<<"start", "found_sequence", "unit">>}
  \cup {<<s, "found_header", "unit_text">> : s \in {"unit", "unit_text", "start"}}
  \cup {<<s, "found_text", "unit_text">> : s \in {"unit_text", "start"}}
  \cup {<<s, "done", "finished">> : s \in {"unit", "unit_text", "start"}}
  \cup {<<s, "found_empty", "start">> : s \in {"unit", "unit_text", "start"}}

\* a line that is neither blank nor a header is read in Unit
TextInUnit ==
  /\ Iterating
  /\ ~NoLine(M)
  /\ aasm_state = "unit"
  /\ EventOf(Advance(M)) = "found_text"

UnparsableLine ==
  [line_number |-> pos + 1, col |-> 1, line |-> rstrip(data[pos + 1]),
   description |-> "Unparsable line"]

\* C25: the machine starts in Start; its state changes only in a turn of
\* the loop and only along the listed transitions; once it is Finished the
\* state does not change and no line is read; and a text line read in Unit
\* leaves the state Unit and the unit as it is, and an 'Unparsable line'
\* error is reported (recorded, or raised as ParseError under a stop level).
C25_Theorem ==
  /\ aasm_state = "start"
  /\ [][/\ aasm_state' # aasm_state =>
             Iterating /\ <<aasm_state, Event, aasm_state'>> \in Transitions
        /\ aasm_state = "finished" =>
             /\ aasm_state' = "finished"
             /\ pos' = pos
             /\ _read_lines' = _read_lines
             /\ _current_line_num' = _current_line_num
        /\ TextInUnit =>
             /\ aasm_state' = "unit"
             /\ temp' = temp
             /\ IF stop_level = "None"
                THEN errors' = Append(errors, UnparsableLine)
                ELSE /\ raised' = Some(UnparsableLine)
                     /\ exception' = "ParseError"
                     /\ errors' = errors]_vars

\* a text line was read in Unit: the machine is still in Unit, the parse
\* goes on and the error is recorded
C25_Witness ==
  /\ aasm_state = "unit"
  /\ status = "running"
  /\ _current_line = Some(TextA)
  /\ errors # <<>>
  /\ errors[Len(errors)].description = "Unparsable line"
  /\ errors[Len(errors)].line_number = _current_line_num + 1

\* the machine finished in a turn that raised Skip, and the loop took one
\* more turn without reading
C25_WitnessFinished ==
  /\ aasm_state = "finished"
  /\ status = "running"


(***************************************************************************)
(* C26                                                                     *)
(***************************************************************************)
\* a line that matches the header pattern is read in UnitText
HeaderInUnitText ==
  /\ Iterating
  /\ ~NoLine(M)
  /\ aasm_state = "unit_text"
  /\ EventOf(Advance(M)) = "found_header"

Duplicated ==
  [line_number |-> pos + 1, col |-> 1, line |-> rstrip(data[pos + 1]),
   description |-> "Duplicated time information, ignoring."]

\* C26: a timing line read in UnitText is ignored: the start, the end and
\* the lines of the unit in progress are left as they are, the state stays
\* UnitText, and exactly one 'Duplicated time information, ignoring.'
\* warning is recorded for the line (raised, under stop level 'warning').
C26_Theorem ==
  [][HeaderInUnitText =>
       /\ aasm_state' = "unit_text"
       /\ temp' = temp
       /\ errors' = errors
       /\ IF stop_level = "warning"
          THEN raised' = Some(Duplicated) /\ warnings' = warnings
          ELSE warnings' = Append(warnings, Duplicated) /\ raised' = None]_vars

\* the second of two timing lines was read right after the first: the unit
\* has the times of the first, no text yet, and the warning is recorded
C26_Witness ==
  /\ aasm_state = "unit_text"
  /\ status = "running"
  /\ temp # None
  /\ Timed(temp)
  /\ temp[1].data.lines = <<>>
  /\ warnings # <<>>
  /\ warnings[Len(warnings)].description = "Duplicated time information, ignoring."
  /\ warnings[Len(warnings)].line_number = _current_line_num + 1
  /\ \A k \in 1..(Len(warnings) - 1) :
       warnings[k].description # "Duplicated time information, ignoring."


(***************************************************************************)
(* C27                                                                     *)
(***************************************************************************)
\* the line is a valid header followed by other content
HasTrailing(line) ==
  /\ _header(line).ok
  /\ _header(line).g2 # <<>>
  /\ ~Contains(line, <<".">>)
  /\ _time(strip(split(_header(line).g1, Arrow)[1])) # <<>>

\* such a line is read in Unit
TrailingRead ==
  /\ Iterating
  /\ ~NoLine(M)
  /\ ~paused
  /\ aasm_state = "unit"
  /\ HasTrailing(rstrip(data[pos + 1]))

\* the turn after it: the truncated line is tried again
TrailingRetry ==
  /\ Iterating
  /\ paused
  /\ aasm_state = "unit"
  /\ pos > 0
  /\ HasTrailing(rstrip(data[pos]))
  /\ _current_line = Some(_header(rstrip(data[pos])).g1)

\* the warning for the line, at the column where the other content starts
Unrecognized(line) ==
  [line_number |-> pos + 1, col |-> Len(line) - Len(_header(line).g2) + 1,
   line |-> line,
   description |-> "Header has unrecognized content at the end."]

\* C27: a line "<valid header> <other content>" read in Unit is cut down to
\* the header and tried again without another line being read; the unit
\* gets the start and end of the header and none of the other content as
\* text; and one 'Header has unrecognized content at the end.' warning is
\* recorded, at the column where the other content starts.
C27_Claim ==
  [][/\ TrailingRead =>
          /\ aasm_state' = "unit"
          /\ temp' = temp
          /\ pos' = pos + 1
          /\ IF stop_level = "warning"
             THEN raised' = Some(Unrecognized(rstrip(data[pos + 1])))
             ELSE /\ warnings' = Append(warnings, Unrecognized(rstrip(data[pos + 1])))
                  /\ paused'
                  /\ _current_line' = Some(_header(rstrip(data[pos + 1])).g1)
     /\ TrailingRetry =>
          /\ pos' = pos
          /\ aasm_state' = "unit_text"
          /\ Timed(temp')
          /\ temp'[1].data.start = StartMs(rstrip(data[pos]))
          /\ temp'[1].data.end = EndMs(rstrip(data[pos]))
          /\ temp'[1].data.lines = <<>>
          /\ warnings' = warnings
          /\ errors' = errors]_vars


(***************************************************************************)
(* C28                                                                     *)
(***************************************************************************)
\* the text of a line after its braces block, and whether the block holds
\* more than the position
AfterBlock(line) == CASE line \in {TPos, TJunk} -> TextA
HoldsMore(line) == CASE line = TPos -> FALSE [] line = TJunk -> TRUE

\* a text line that starts with a braces block is read into an open unit
TaggedRead ==
  /\ Iterating
  /\ ~NoLine(M)
  /\ ~paused
  /\ aasm_state \in {"unit_text", "start"}
  /\ temp # None
  /\ rstrip(data[pos + 1]) \in {TPos, TJunk}

NotFullyParsed(line) ==
  [line_number |-> pos + 1, col |-> 1, line |-> line,
   description |-> "Tagged header not fully parsed."]

\* the last turn read such a line and recorded the warning, and a completed
\* unit is still waiting to be handed over
TaggedWaiting ==
  /\ status = "running"
  /\ _parsed # None
  /\ pos > 0
  /\ warnings # <<>>
  /\ warnings[Len(warnings)] =
       [line_number |-> pos, col |-> 1, line |-> rstrip(data[pos]),
        description |-> "Tagged header not fully parsed."]

\* the unit that waits is handed over, or keeps waiting
HandedOver ==
  \/ _parsed' = _parsed
  \/ sub' = Append(sub, _parsed[1].data)

\* the text of the line is taken into the unit: the braces block is left
\* out, the position is that of \pos(x,y) and the state is UnitText
TextExtracted ==
  With(rstrip(data[pos + 1]), LAMBDA line :
    /\ aasm_state' = "unit_text"
    /\ temp' # None
    /\ temp'[1].sequence = temp[1].sequence
    /\ temp'[1].data.lines =
         temp[1].data.lines
           \o (IF aasm_state = "start" THEN <<Blank>> ELSE <<>>)
           \o <<AfterBlock(line)>>
    /\ "position" \in DOMAIN temp'[1].data
    /\ temp'[1].data.position = [x |-> 1, y |-> 2]
    /\ IF ~HoldsMore(line)
       THEN warnings' = warnings /\ exception' = "none"
       ELSE IF stop_level = "warning"
       THEN /\ raised' = Some(NotFullyParsed(line))
            /\ exception' = "ParseWarning"
            /\ warnings' = warnings
       ELSE warnings' = Append(warnings, NotFullyParsed(line)))

\* C28: a text line that starts with a braces block is taken into the unit
\* without the block, a \pos(x,y) in the block sets the position of the
\* unit, and one 'Tagged header not fully parsed.' warning is reported when
\* the block holds more (recorded, or raised as ParseWarning under the stop
\* level 'warning'); a completed unit that waits to be handed over when the
\* line is read is not lost, neither in the turn that reads the line nor in
\* the turn after the warning.
C28_Claim ==
  [][/\ TaggedRead => TextExtracted /\ (_parsed # None => HandedOver)
     /\ TaggedWaiting => HandedOver]_vars

\* the part of C28 about the line itself
C28_Extraction == [][TaggedRead => TextExtracted]_vars

\* the warning was recorded and the unit has the text and the position
C28_Witness ==
  /\ TaggedWaiting
  /\ aasm_state = "unit_text"
  /\ temp # None
  /\ temp[1].data.lines = <<TextA>>
  /\ temp[1].data.position = [x |-> 1, y |-> 2]


(***************************************************************************)
(* C29                                                                     *)
(***************************************************************************)
\* the rows of the similarity map, as pairs: the encoding that failed and
\* the encoding the map lists for it
MapRows ==
  {<<"ISO-8859-2", "windows-1250">>, <<"windows-1255", "windows-1256">>,
   <<"GB2312", "GB18030">>, <<"EUC-TW", "BIG5-TW">>}

\* the encodings the map lists for a name, and those it relates to the
\* name in either direction
ListedFor(name) == {r[2] : r \in {x \in MapRows : x[1] = name}}
RelatedTo(name) == ListedFor(name) \cup {r[1] : r \in {x \in MapRows : x[2] = name}}

\* the names tried up to the i-th trial of the call
TriedUpTo(o, i) == {o.attempted[k] : k \in 1..i}

\* the number of trials that injected an encoding
Injections(o) ==
  Cardinality({i \in 1..Len(o.attempted) :
                 ListedFor(o.attempted[i]) \ TriedUpTo(o, i) # {}})

\* C29 as it is claimed: when detect gives up, every encoding the map
\* relates, in either direction, to an encoding that was rejected has been
\* tried.
C29_Original ==
  NoMark =>
    \A o \in Detected :
      o.kind = "EncodingError" =>
        \A i \in 1..Len(o.attempted) :
          RelatedTo(o.attempted[i]) \subseteq TriedUpTo(o, Len(o.attempted))

\* C29 amended: when a candidate is rejected, the encoding the map lists
\* for it (the map is read from the rejected encoding to the listed one
\* only) is tried next if it has not been rejected yet, before the other
\* candidates and before detect gives up; an encoding that has been
\* rejected is not tried again for it, and nothing else is injected: the
\* trials are the candidates (hint, language, detected) and one more for
\* every injection.
C29_Theorem ==
  NoMark =>
    \A o \in Detected :
      o.kind # "ValueError" =>
        /\ \A i \in 1..Len(o.attempted) :
             (i < Len(o.attempted) \/ o.kind = "EncodingError") =>
               \A name \in ListedFor(o.attempted[i]) \ TriedUpTo(o, i) :
                 i < Len(o.attempted) /\ o.attempted[i + 1] = name
        /\ \A i \in 1..Len(o.attempted) :
             \/ o.attempted[i] \in Range(Listed)
             \/ i > 1 /\ o.attempted[i] \in ListedFor(o.attempted[i - 1])
        /\ Len(o.attempted) <= Len(Listed) + Injections(o)
        /\ o.kind = "EncodingError" =>
             Len(o.attempted) = Len(Listed) + Injections(o)

\* the hint GB18030 was rejected, then the detected GB2312, for which the
\* map lists GB18030: it was not tried again and detect gave up
C29_Witness ==
  /\ NoMark
  /\ encoding_hint = Some("GB18030")
  /\ language_hint = None
  /\ chardet = Some(Candidate("GB2312", Some(50)))
  /\ \E o \in Detected :
       /\ o.kind = "EncodingError"
       /\ o.attempted = <<"GB18030", "GB2312">>

\* the detected GB2312 was rejected and GB18030, which the map lists for
\* it, was tried next and returned
C29_WitnessInjected ==
  /\ NoMark
  /\ encoding_hint = None
  /\ chardet = Some(Candidate("GB2312", Some(50)))
  /\ \E o \in Detected :
       /\ o.kind = "returned"
       /\ o.attempted = <<"GB2312", "GB18030">>
       /\ o.value = <<"GB18030", None>>


(***************************************************************************)
(* C30                                                                     *)
(***************************************************************************)
\* the step is a call of _fetch_line
Fetched == answer' # None /\ answer'[1].op = "_fetch_line"

\* C30: a call of _fetch_line(index) reads no line and leaves the cursor,
\* the history and the current line as they are; for an index above the
\* current line number it raises ValueError 'Cannot seek forward.'; and for
\* an index from 0 to the current line number it returns the line of the
\* document with that 0-based index without its trailing whitespace,
\* whatever the current line was rewritten to.
C30_Theorem ==
  [][Fetched =>
       /\ UNCHANGED <<data, pos, _read_lines, _current_line_num, _current_line>>
       /\ answer'[1].index > _current_line_num =>
            /\ answer'[1].kind = "ValueError"
            /\ answer'[1].message = "Cannot seek forward."
       /\ answer'[1].index \in 0.._current_line_num =>
            /\ answer'[1].kind = "returned"
            /\ answer'[1].value = rstrip(data[answer'[1].index + 1])]_cursor_all

\* the line "b \r\n" was read and rewritten to "1", and _fetch_line of its
\* index has returned "b"
C30_Witness ==
  /\ _current_line_num >= 1
  /\ data[_current_line_num + 1] = <<"b", " ", "\r", "\n">>
  /\ _current_line = Some(<<"1">>)
  /\ answer = Some(Answer("_fetch_line", _current_line_num, "returned",
                          <<"b">>, FALSE, ""))

\* _fetch_line of the index after the current line has raised ValueError
\* though the document has such a line
C30_WitnessForward ==
  /\ _current_line_num + 1 < Len(data)
  /\ answer # None
  /\ answer[1].op = "_fetch_line"
  /\ answer[1].index = _current_line_num + 1
  /\ answer[1].kind = "ValueError"


(***************************************************************************)
(* C31                                                                     *)
(***************************************************************************)
\* the step is a call of _next_line
Advanced == answer' # None /\ answer'[1].op = "_next_line"

\* C31: a call of _next_line with a line left to read returns True, reads
\* exactly that line, adds one to the current line number, appends the raw
\* line to the history and makes its right-trimmed text the current line; a
\* call at the end of the document returns False and changes neither the
\* line number, the history, the current line nor the position, so that
\* every call after it finds the end again.
C31_Theorem ==
  [][Advanced =>
       IF pos < Len(data)
       THEN /\ answer'[1].more = TRUE
            /\ pos' = pos + 1
            /\ _current_line_num' = _current_line_num + 1
            /\ _read_lines' = Append(_read_lines, data[pos + 1])
            /\ _current_line' = Some(rstrip(data[pos + 1]))
       ELSE /\ answer'[1].more = FALSE
            /\ UNCHANGED <<pos, _current_line_num, _read_lines, _current_line>>
            /\ pos' >= Len(data)]_cursor_all

\* every line of a document of MaxLines lines was read, the last one
\* without a line end, and the call after it has returned False
C31_Witness ==
  /\ Len(data) = MaxLines
  /\ data[MaxLines] = <<"c">>
  /\ pos = MaxLines
  /\ _current_line_num = MaxLines - 1
  /\ _read_lines = data
  /\ answer = Some(Answer("_next_line", 0, "returned", <<>>, FALSE, ""))


(***************************************************************************)
(* C32                                                                     *)
(***************************************************************************)
\* the step is a call of _rewind
Rewound == answer' # None /\ answer'[1].op = "_rewind"

\* the last call was _rewind
AfterRewind == answer # None /\ answer[1].op = "_rewind"

\* C32: a call of _rewind sets the line number to -1, leaves no current
\* line, puts the data at its start and empties the history; and a call of
\* _fetch_line made while no line has been read again fails, whatever the
\* index.
C32_Theorem ==
  [][/\ Rewound =>
          /\ _current_line_num' = -1
          /\ _current_line' = None
          /\ pos' = 0
          /\ _read_lines' = <<>>
     /\ (Fetched /\ (AfterRewind \/ pos = 0)) =>
          /\ answer'[1].kind \in {"ValueError", "IndexError"}
          /\ answer'[1].index >= 0 => answer'[1].kind = "ValueError"]_cursor_all

\* lines were read, the parser was rewound and _fetch_line(0) has failed
C32_Witness ==
  /\ visited >= 2
  /\ pos = 0
  /\ _current_line_num = -1
  /\ _read_lines = <<>>
  /\ _current_line = None
  /\ answer = Some(Answer("_fetch_line", 0, "ValueError", <<>>, FALSE,
                          "Cannot seek forward."))


(***************************************************************************)
(* C33                                                                     *)
(***************************************************************************)
\* the last call was _fetch_line of a line that was visited at some time
FetchedVisited ==
  /\ answer # None
  /\ answer[1].op = "_fetch_line"
  /\ answer[1].index \in 0..(visited - 1)

\* C33 as it is claimed: the lines that were read are in the history
\* whether or not the parser was rewound since, and _fetch_line of the
\* index of a line that was visited returns it.
C33_Original ==
  /\ Len(_read_lines) = visited
  /\ FetchedVisited => answer[1].kind = "returned"

\* C33 amended: the history does not outlast a rewind.  It holds the lines
\* read since the last rewind and no others, and _fetch_line of the index
\* of a line visited before the rewind raises ValueError until the line
\* has been read again; then it returns the text the index had before.
C33_Theorem ==
  /\ _read_lines = SubSeq(data, 1, pos)
  /\ _current_line_num = pos - 1
  /\ FetchedVisited =>
       IF answer[1].index < pos
       THEN /\ answer[1].kind = "returned"
            /\ answer[1].value = rstrip(data[answer[1].index + 1])
       ELSE /\ answer[1].kind = "ValueError"
            /\ answer[1].message = "Cannot seek forward."

\* two lines were read, the parser was rewound and the first line read
\* again: _fetch_line(1) has failed for the second line
C33_Witness ==
  /\ visited >= 2
  /\ pos = 1
  /\ Len(_read_lines) = 1
  /\ answer = Some(Answer("_fetch_line", 1, "ValueError", <<>>, FALSE,
                          "Cannot seek forward."))


(***************************************************************************)
(* C34                                                                     *)
(***************************************************************************)
\* a unit that has its timing
HasTiming(unit) == {"start", "end"} \subseteq DOMAIN unit.data

\* the turn hands the unit over to Parser.parse
Yields(unit) == sub' = Append(sub, unit.data)

\* the turn ends without an exception leaving parse
GoesOn == status' \in {"running", "finished"}

\* a completed unit that waits in _parsed keeps waiting or is yielded
WaitingKept ==
  (_parsed # None /\ HasTiming(_parsed[1])) =>
    \/ _parsed' = _parsed
    \/ Yields(_parsed[1])

\* a unit in progress that is left for another one, or at the end of the
\* input, waits in _parsed or is yielded in the same turn
ProgressKept ==
  (/\ temp # None
   /\ HasTiming(temp[1])
   /\ temp' = None \/ temp'[1].sequence # temp[1].sequence) =>
    \/ _parsed' = temp
    \/ Yields(temp[1])

\* what is yielded is the unit that waited or the unit that was in progress
YieldedOnce ==
  sub' # sub =>
    /\ _parsed' = None
    /\ \/ _parsed # None /\ Yields(_parsed[1])
       \/ temp # None /\ temp' # temp /\ Yields(temp[1])

\* C34: no unit is lost or duplicated in the hand-off.  In every turn of
\* the loop that ends without an exception leaving parse, a completed unit
\* waiting in _parsed is yielded or keeps waiting, a unit in progress that
\* is left is yielded or put in _parsed, only such a unit is yielded, and
\* once, and when parse returns no unit is left behind.
C34_Claim ==
  [][GoesOn =>
       /\ WaitingKept
       /\ ProgressKept
       /\ YieldedOnce
       /\ status' = "finished" => _parsed' = None /\ temp' = None]_vars

\* C34 without the waiting unit
C34_Rest ==
  [][GoesOn =>
       /\ ProgressKept
       /\ YieldedOnce
       /\ status' = "finished" => _parsed' = None /\ temp' = None]_vars


\* the example of the claim: a unit was completed by a header without a
\* sequence, the input ended with that header, and parse has returned
\* the unit of the header only
C34_Example ==
  /\ Len(units) = 2
  /\ units[1] \in SepShapes
  /\ units[2] \in EndShapes
  /\ stop_level = "None"
  /\ status = "finished"
  /\ Len(sub) = 1
  /\ sub[1].lines = <<>>


(***************************************************************************)
(* C35                                                                     *)
(***************************************************************************)
\* a header line is read in Start and is the first line of a unit written
\* without a sequence number
SequenceLess(h) ==
  /\ pos > 0
  /\ rstrip(data[pos]) = h
  /\ \E i \in 1..Len(units) : ~units[i].seq /\ units[i].hdr = <<h>>

\* C35: with no stop level no exception leaves SubRipParser.parse: the
\* parse runs or has returned, whatever the lines of the document are,
\* and what is wrong with a line is in warnings or errors.
C35_Claim ==
  stop_level = "None" =>
    /\ status \in {"running", "finished"}
    /\ exception = "none"
    /\ raised = None

\* the three headers the claim names, read without a sequence line: the
\* parse has ended with the exception of the time parsing
C35_Dot ==
  stop_level = "None" /\ SequenceLess(HDot) /\ status = "crashed"
    /\ exception = "AttributeError"
C35_Invalid ==
  stop_level = "None" /\ SequenceLess(HBad) /\ status = "crashed"
    /\ exception = "AttributeError"
C35_TwoArrows ==
  stop_level = "None" /\ SequenceLess(HTwice) /\ status = "crashed"
    /\ exception = "ValueError"


(***************************************************************************)
(* C36                                                                     *)
(***************************************************************************)
\* the document is written of regular units and of units with blank lines
\* between two text lines, with every sequence number in place
BlanksInText ==
  /\ gap = 0
  /\ \A i \in 1..Len(units) : units[i] \in SepShapes \cup GapShapes
  /\ \E i \in 1..Len(units) : units[i] \in GapShapes

\* the empty strings among the lines of a unit
Empties(lines) == Cardinality({j \in 1..Len(lines) : lines[j] = <<>>})

\* C36: when text lines of a unit are separated by k blank lines, the unit
\* that is emitted for it has the first text line, k empty strings and the
\* text line after the blanks, in this order and in one unit: the parse
\* returns as many units as are written, each with its lines, and records
\* no warning and no error.
C36_Theorem ==
  BlanksInText =>
    /\ status \in {"running", "finished"}
    /\ warnings = <<>> /\ errors = <<>>
    /\ Len(sub) <= Len(units)
    /\ \A i \in 1..Len(sub) :
         /\ sub[i].lines = units[i].text
         /\ units[i] \in GapShapes =>
              /\ sub[i].lines[1] = TextA
              /\ sub[i].lines[Len(sub[i].lines)] = TextB
              /\ Empties(sub[i].lines) = Len(sub[i].lines) - 2
    /\ status = "finished" => Len(sub) = Len(units)

\* a unit written with MaxBlanks blank lines between "a" and "b", and a
\* regular unit after it, were returned
C36_Witness ==
  /\ BlanksInText
  /\ status = "finished"
  /\ Len(units) = 2
  /\ units[1].text = <<TextA>> \o Blanks(MaxBlanks) \o <<TextB>>
  /\ units[2] \in SepShapes
  /\ Len(sub) = 2
  /\ sub[1].lines = <<TextA>> \o Blanks(MaxBlanks) \o <<TextB>>


(***************************************************************************)
(* C37                                                                     *)
(***************************************************************************)
\* the parse of the exported bytes has returned
ParsedBack == parses # <<>> /\ status = "finished"

\* the units that came back have the lines and the times of the units that
\* were exported, in the same order
SameUnits ==
  /\ Len(sub) = Len(subtitle)
  /\ \A i \in 1..Len(sub) :
       /\ sub[i].lines = subtitle[i].lines
       /\ sub[i].start = subtitle[i].start
       /\ sub[i].end = subtitle[i].end

\* C37: parsing the bytes that SubRipExporter.export has written for a
\* Subtitle whose units have whole-millisecond times and one or more text
\* lines that are not empty yields the same number of units, in the same
\* order, with the same lines, start and end, and records no warning and no
\* error.
C37_Claim ==
  ParsedBack => SameUnits /\ warnings = <<>> /\ errors = <<>>

\* the time that comes back: what _convert_time has written
WrittenMs(ms) == convert(_convert_time(ms))

\* what does hold: the units come back one for one, with the lines as
\* encode and decode leave them and the times as _convert_time wrote them,
\* with no error, and with one warning, for the last line of the bytes, when
\* there is a unit
C37_Rest ==
  ParsedBack =>
    /\ Len(sub) = Len(subtitle)
    /\ \A i \in 1..Len(sub) :
         /\ sub[i].lines = [k \in 1..Len(subtitle[i].lines) |->
                              decode(encode(subtitle[i].lines[k], _encoding),
                                     _encoding)]
         /\ sub[i].start = WrittenMs(subtitle[i].start)
         /\ sub[i].end = WrittenMs(subtitle[i].end)
    /\ errors = <<>>
    /\ Len(warnings) = (IF subtitle = <<>> THEN 0 ELSE 1)
    /\ \A k \in 1..Len(warnings) :
         /\ warnings[k].description = "Missing empty line after unit."
         /\ warnings[k].line_number = Len(data)

\* one unit of plain text and times that _convert_time writes exactly came
\* back as it was, with the warning
C37_Warned ==
  /\ ParsedBack
  /\ Len(subtitle) = 1
  /\ subtitle[1] = [start |-> 1000, end |-> 2000, lines |-> <<TextA>>]
  /\ SameUnits
  /\ Len(warnings) = 1

\* a unit that starts at 1.001 s came back starting at 1.000 s
C37_Shortened ==
  /\ ParsedBack
  /\ Len(subtitle) = 1
  /\ subtitle[1].start = 1001
  /\ sub[1].start = 1000


(***************************************************************************)
(* C38                                                                     *)
(***************************************************************************)
\* the warnings and the errors recorded by the parse that is running or has
\* ended last
OwnWarnings == SubSeq(warnings, parses[Len(parses)][1] + 1, Len(warnings))
OwnErrors == SubSeq(errors, parses[Len(parses)][2] + 1, Len(errors))

\* a line number that is a 1-based position within the document parsed
InDocument(n) == n \in 1..Len(data)

\* C38: every parse of new data starts from the initial cursor (line number
\* -1, empty history): when one parser parses several documents one after
\* another, the cursor counts the lines of the document of the parse, and
\* the line number of every diagnostic the parse records or raises is a
\* 1-based position within that document, whose line it names.
C38_Claim ==
  parses # <<>> =>
    /\ _current_line_num = pos - 1
    /\ _read_lines = SubSeq(data, 1, pos)
    /\ \A k \in 1..Len(OwnWarnings) :
         /\ InDocument(OwnWarnings[k].line_number)
         /\ rstrip(data[OwnWarnings[k].line_number]) = OwnWarnings[k].line
    /\ \A k \in 1..Len(OwnErrors) : InDocument(OwnErrors[k].line_number)
    /\ raised # None => InDocument(raised[1].line_number)

\* what the first parse of a parser does: the claim holds for it
C38_First ==
  Len(parses) = 1 =>
    /\ _current_line_num = pos - 1
    /\ _read_lines = SubSeq(data, 1, pos)
    /\ \A k \in 1..Len(OwnWarnings) : InDocument(OwnWarnings[k].line_number)
    /\ \A k \in 1..Len(OwnErrors) : InDocument(OwnErrors[k].line_number)
    /\ raised # None => InDocument(raised[1].line_number)

\* what later parses do: the cursor goes on from where the parse before
\* left it, so that the line numbers are positions within all the lines
\* the parser has read
C38_Carried ==
  parses # <<>> =>
    /\ _current_line_num = Len(_read_lines) - 1
    /\ pos <= Len(_read_lines)
    /\ SubSeq(_read_lines, Len(_read_lines) - pos + 1, Len(_read_lines))
         = SubSeq(data, 1, pos)
    /\ \A k \in 1..Len(OwnWarnings) :
         OwnWarnings[k].line_number \in 1..Len(_read_lines)

\* the second parse of a document of three lines without a blank line at
\* the end recorded its warning for line 6
C38_Second ==
  /\ Len(parses) = 2
  /\ status = "finished"
  /\ Len(data) = 3
  /\ Len(OwnWarnings) = 1
  /\ OwnWarnings[1].description = "Missing empty line after unit."
  /\ OwnWarnings[1].line_number = 6


(***************************************************************************)
(* C39                                                                     *)
(***************************************************************************)
\* the 0-based numbers of the lines of the document that HEADER_RE matches
HeaderLines ==
  {i \in 0..(Len(data) - 1) : HEADER_RE(strip(rstrip(data[i + 1]))).ok}

\* the numbers of n..(Len(data) - 1) that are in S when wanted is TRUE, and
\* those that are not in S when it is FALSE, in ascending order
RECURSIVE Ascending(_, _, _)
Ascending(S, wanted, n) ==
  IF n >= Len(data) THEN <<>>
  ELSE (IF (n \in S) = wanted THEN <<n>> ELSE <<>>) \o Ascending(S, wanted, n + 1)

\* the pre-scan has ended: the cursor and the source are rewound and the
\* lines marked are the {DEFAULT} lines
PreScanEnds ==
  stage = "metadata" /\ stage' = "units" =>
    /\ _skip_lines' = HeaderLines
    /\ _current_line_num' = -1 /\ _read_lines' = <<>> /\ pos' = 0

\* the unit pass skips a line: it is a marked line, under the number the
\* pre-scan gave it
SkipsMarked ==
  passed' # passed =>
    /\ _current_line_num' = pos' - 1
    /\ passed' = Append(passed, _current_line_num')
    /\ _current_line_num' \in HeaderLines
    /\ sub' = sub /\ errors' = errors /\ warnings' = warnings

\* the line that is examined gave one 'Could not parse line' error
OneError ==
  /\ sub' = sub
  /\ \/ /\ exception' = "none"
        /\ Len(errors') = Len(errors) + 1
        /\ errors'[Len(errors')].description[1] = "Could not parse line"
        /\ errors'[Len(errors')].line_number = _current_line_num' + 1
     \/ /\ exception' = "ParseError"
        /\ errors' = errors
        /\ raised'[1].description[1] = "Could not parse line"
        /\ raised'[1].line_number = _current_line_num' + 1

\* the line that is examined gave one unit
OneUnit ==
  /\ exception' = "none"
  /\ Len(sub') = Len(sub) + 1
  /\ errors' = errors

\* a warning of the stop level has stopped the parse
StoppedByWarning ==
  /\ exception' = "ParseWarning"
  /\ stop_level = "warning"
  /\ sub' = sub /\ errors' = errors

\* the unit pass examines a line: it is not a marked line, it has the number
\* the pre-scan gave it, and it gives one unit or one error
ExaminesOther ==
  examined' # examined =>
    /\ _current_line_num' = pos' - 1
    /\ examined' = Append(examined, _current_line_num')
    /\ _current_line_num' \notin HeaderLines
    /\ OneUnit \/ OneError \/ StoppedByWarning

\* the parse returns: every marked line was skipped once and every other
\* line was examined once
AllLinesOnce ==
  status = "running" /\ status' = "finished" =>
    /\ passed = Ascending(HeaderLines, TRUE, 0)
    /\ examined = Ascending(HeaderLines, FALSE, 0)
    /\ Len(sub) + Len(errors) = Len(examined)

\* C39: the lines that the metadata pass marks as {DEFAULT} lines are
\* exactly the lines that the unit pass skips; the cursor and the source
\* are rewound between the passes, so that a line has the same number in
\* both; every other line is examined exactly once by the unit pass and
\* gives one unit or one 'Could not parse line' error.
C39_Claim ==
  [][PreScanEnds /\ SkipsMarked /\ ExaminesOther /\ AllLinesOnce]_microdvd_all

\* a line of the document has a tag without a colon
BadTag ==
  \E i \in 1..Len(data) :
    With(FORMAT_RE_match(strip(rstrip(data[i]))), LAMBDA g :
      g.ok /\ \E k \in 1..Len(g.header) :
                g.header[k] = "{" /\ ~Contains(SubSeq(g.header, k, OneTag(g.header, k) - 1), <<":">>))

\* what does hold: the same for the documents in which every tag of a unit
\* line has a colon
C39_Rest ==
  [][~BadTag => PreScanEnds /\ SkipsMarked /\ ExaminesOther /\ AllLinesOnce]_microdvd_all

\* a unit line with the tag {x} has ended the parse with ValueError
C39_Crashed ==
  /\ status = "crashed"
  /\ exception = "ValueError"
  /\ stage = "units"
  /\ examined # <<>>
  /\ _current_line = Some(<<"{","7","}","{","8","}","{","x","}","a">>)

\* a parse of three lines, the second a {DEFAULT} line, has returned with
\* the second line skipped and the other two examined
C39_TwoPasses ==
  /\ status = "finished"
  /\ Len(data) = 3
  /\ _skip_lines = {1}
  /\ passed = <<1>>
  /\ examined = <<0, 2>>
  /\ Len(sub) = 1
  /\ Len(errors) = 1


(***************************************************************************)
(* C40                                                                     *)
(***************************************************************************)
\* the last call was a _next_line that read a line
JustRead ==
  answer # None /\ answer[1].op = "_next_line" /\ answer[1].more

\* C40: after any sequence of _next_line, _fetch_line and _rewind calls
\* (and rewrites of the current line) on one parser, the history holds
\* exactly current line number + 1 lines; the current line is None before
\* the first read and is the last line of the history without its trailing
\* whitespace after a read, until it is rewritten; and _fetch_line(i)
\* returns, for every i from 0 to the current line number, the line read
\* under that number.
C40_Theorem ==
  /\ Len(_read_lines) = _current_line_num + 1
  /\ _current_line_num = -1 => _current_line = None
  /\ _current_line_num >= 0 =>
       \/ _current_line = Some(rstrip(_read_lines[Len(_read_lines)]))
       \/ ~JustRead /\ \E value \in Rewrites : _current_line = Some(value)
  /\ \A i \in 0.._current_line_num :
       /\ Fetch(_read_lines, _current_line_num, i).kind = "returned"
       /\ Fetch(_read_lines, _current_line_num, i).value = rstrip(data[i + 1])

\* every line of a document of MaxLines lines was read, the cursor was
\* rewound, two lines were read again and the current line was rewritten
C40_Witness ==
  /\ visited = MaxLines
  /\ _current_line_num = 1
  /\ Len(_read_lines) = 2
  /\ _current_line = Some(<<"1">>)
  /\ _current_line # Some(rstrip(_read_lines[2]))
  /\ answer # None /\ answer[1].op = "current_line"

====
